---- MODULE Spec2Model ----
(***************************************************************************)
(* MatchWise ingestion core: the incremental sync drivers                  *)
(* (scripts/enhanced_ingestion.py and scripts/sync_fixtures.py), the       *)
(* upsert engines they call, the relational store and the state file.      *)
(***************************************************************************)
EXTENDS Integers, Sequences, FiniteSets, TLC

\* ---------------------------------------------------------------------
\* Bounds of the model
\* ---------------------------------------------------------------------
MaxRuns == 3
MaxEvents == 1

\* ---------------------------------------------------------------------
\* Python / SQL values.  A value carries its run-time type, so that
\* comparing a str with a datetime.date is False as it is in Python.
\* ---------------------------------------------------------------------
None == [t |-> "none", v |-> ""]
Str(s) == [t |-> "str", v |-> s]
Date(s) == [t |-> "date", v |-> s]

\* None for integer ids and scores (Python None; ids start at 1)
NoId == 0
NoScore == -1

\* Column(Date): a str bound to a Date column is stored as a DATE and read
\* back as a datetime.date
ToDateColumn(x) == IF x.t = "str" THEN Date(x.v) ELSE x

\* SQL comparison of a DATE column with a bound parameter (server-side cast)
SqlDateEq(col, param) == col.t = "date" /\ param.t \in {"str", "date"} /\ col.v = param.v

\* hashlib.sha1 over the bytes of a file: distinct contents, distinct digests
sha1_hex(b) == CASE b = 1 -> "sha1-c1" [] b = 2 -> "sha1-c2" [] b = 3 -> "sha1-c3" [] OTHER -> "sha1-cx"
NoHash == "absent"

\* int(season_year) and the season directory names
IntOfYear(s) == CASE s = "2023" -> 2023 [] s = "2024" -> 2024 [] OTHER -> 0

\* datetime.now().year
CurrentYear == 2026

\* ---------------------------------------------------------------------
\* Python text.  A str is a TLA+ string; the operators below read it
\* character by character, as str.split, int(), the re patterns and
\* datetime.strptime of the scripts do.
\* ---------------------------------------------------------------------
IsDigit(c) == c = "0" \/ c = "1" \/ c = "2" \/ c = "3" \/ c = "4" \/ c = "5" \/ c = "6"
              \/ c = "7" \/ c = "8" \/ c = "9"

DigitVal(c) ==
    CASE c = "0" -> 0 [] c = "1" -> 1 [] c = "2" -> 2 [] c = "3" -> 3 [] c = "4" -> 4
      [] c = "5" -> 5 [] c = "6" -> 6 [] c = "7" -> 7 [] c = "8" -> 8 [] OTHER -> 9

DigitChar(n) ==
    CASE n = 0 -> "0" [] n = 1 -> "1" [] n = 2 -> "2" [] n = 3 -> "3" [] n = 4 -> "4"
      [] n = 5 -> "5" [] n = 6 -> "6" [] n = 7 -> "7" [] n = 8 -> "8" [] OTHER -> "9"

\* str.lower() on the letters of the ASCII alphabet
LowerChar(c) ==
    CASE c = "A" -> "a" [] c = "B" -> "b" [] c = "C" -> "c" [] c = "D" -> "d" [] c = "E" -> "e"
      [] c = "F" -> "f" [] c = "G" -> "g" [] c = "H" -> "h" [] c = "I" -> "i" [] c = "J" -> "j"
      [] c = "K" -> "k" [] c = "L" -> "l" [] c = "M" -> "m" [] c = "N" -> "n" [] c = "O" -> "o"
      [] c = "P" -> "p" [] c = "Q" -> "q" [] c = "R" -> "r" [] c = "S" -> "s" [] c = "T" -> "t"
      [] c = "U" -> "u" [] c = "V" -> "v" [] c = "W" -> "w" [] c = "X" -> "x" [] c = "Y" -> "y"
      [] c = "Z" -> "z" [] OTHER -> c

RECURSIVE Lower(_)
Lower(s) == IF s = "" THEN "" ELSE LowerChar(Head(s)) \o Lower(Tail(s))

RECURSIVE AllDigits(_)
AllDigits(s) == s = "" \/ (IsDigit(Head(s)) /\ AllDigits(Tail(s)))

\* the character c occurs in s ('/' in parts[1])
RECURSIVE Contains(_, _)
Contains(s, c) == s # "" /\ (Head(s) = c \/ Contains(Tail(s), c))

\* ValueError / TypeError raised by a conversion
Raised == -1

\* int(s): white space around the digits is ignored; a str that is not a
\* run of decimal digits raises ValueError
RECURSIVE IntAcc(_, _)
IntAcc(s, acc) == IF s = "" THEN acc ELSE IntAcc(Tail(s), 10 * acc + DigitVal(Head(s)))
IntOfDigits(s) == IF s # "" /\ AllDigits(s) THEN IntAcc(s, 0) ELSE Raised

\* f"{n:0wd}" for n >= 0: the decimal digits, zero-padded to width w
RECURSIVE Decimal(_)
Decimal(n) == IF n < 10 THEN DigitChar(n) ELSE Decimal(n \div 10) \o DigitChar(n % 10)
RECURSIVE ZeroPad(_, _)
ZeroPad(s, w) == IF Len(s) >= w THEN s ELSE ZeroPad("0" \o s, w)
fmt_d(n, w) == ZeroPad(Decimal(n), w)

\* s.split(c): the pieces of s between the occurrences of c
RECURSIVE SplitAcc(_, _, _, _)
SplitAcc(s, c, piece, out) ==
    IF s = "" THEN Append(out, piece)
    ELSE IF Head(s) = c THEN SplitAcc(Tail(s), c, "", Append(out, piece))
    ELSE SplitAcc(Tail(s), c, piece \o Head(s), out)
split_on(s, c) == SplitAcc(s, c, "", <<>>)

\* s.split(): the pieces between runs of white space, none of them empty
RECURSIVE WordsAcc(_, _, _)
WordsAcc(s, piece, out) ==
    IF s = "" THEN (IF piece = "" THEN out ELSE Append(out, piece))
    ELSE IF Head(s) = " "
         THEN WordsAcc(Tail(s), "", IF piece = "" THEN out ELSE Append(out, piece))
    ELSE WordsAcc(Tail(s), piece \o Head(s), out)
split(s) == WordsAcc(s, "", <<>>)

\* s.strip()
RECURSIVE lstrip(_)
lstrip(s) == IF s # "" /\ Head(s) = " " THEN lstrip(Tail(s)) ELSE s
RECURSIVE rstrip(_)
rstrip(s) == IF s # "" /\ SubSeq(s, Len(s), Len(s)) = " " THEN rstrip(SubSeq(s, 1, Len(s) - 1)) ELSE s
strip(s) == rstrip(lstrip(s))
int(s) == IntOfDigits(strip(s))

\* the calendar
IsLeap(y) == (y % 4 = 0 /\ y % 100 # 0) \/ y % 400 = 0
DaysInMonth(y, m) ==
    CASE m = 2 -> (IF IsLeap(y) THEN 29 ELSE 28)
      [] m \in {4, 6, 9, 11} -> 30
      [] OTHER -> 31
\* datetime(y, m, d) exists
IsCalendarDate(y, m, d) == 1 <= y /\ y <= 9999 /\ 1 <= m /\ m <= 12 /\ 1 <= d /\ d <= DaysInMonth(y, m)

\* strptime directive %b: an abbreviated month name, in any letter case
MonthOfAbbr(s) ==
    CASE s = "jan" -> 1 [] s = "feb" -> 2 [] s = "mar" -> 3 [] s = "apr" -> 4 [] s = "may" -> 5
      [] s = "jun" -> 6 [] s = "jul" -> 7 [] s = "aug" -> 8 [] s = "sep" -> 9 [] s = "oct" -> 10
      [] s = "nov" -> 11 [] s = "dec" -> 12 [] OTHER -> Raised
strptime_b(s) == MonthOfAbbr(Lower(s))

\* strptime directive %a: an abbreviated weekday name, in any letter case
IsWeekdayAbbr(s) == Lower(s) \in {"mon", "tue", "wed", "thu", "fri", "sat", "sun"}

\* strptime directives %m and %d: one or two digits, within 1..hi
FieldOf(s, hi) ==
    IF Len(s) \in {1, 2} /\ AllDigits(s) /\ 1 <= IntAcc(s, 0) /\ IntAcc(s, 0) <= hi
    THEN IntAcc(s, 0) ELSE Raised

\* the year strptime assumes when the format has none
StrptimeDefaultYear == 1900

\* datetime.strptime(s, '%Y-%m-%d'): [ok, y, m, d]; ok is FALSE on ValueError
DateFields(ok, y, m, d) == [ok |-> ok, y |-> y, m |-> m, d |-> d]
NoDate == DateFields(FALSE, 0, 0, 0)
CheckedDate(y, m, d) ==
    IF y # Raised /\ m # Raised /\ d # Raised /\ IsCalendarDate(y, m, d)
    THEN DateFields(TRUE, y, m, d) ELSE NoDate
strptime_ymd(s) ==
    LET p == split_on(s, "-")
    IN IF Len(p) = 3 /\ Len(p[1]) = 4 /\ AllDigits(p[1])
       THEN CheckedDate(IntAcc(p[1], 0), FieldOf(p[2], 12), FieldOf(p[3], 31))
       ELSE NoDate

\* datetime.strptime(s, '%b/%d')
strptime_bd(s) ==
    LET p == split_on(s, "/")
    IN IF Len(p) = 2
       THEN CheckedDate(StrptimeDefaultYear, strptime_b(p[1]), FieldOf(p[2], 31))
       ELSE NoDate

\* datetime.strptime(s, '%a %b/%d'): the blank of the format matches any
\* run of white space
strptime_abd(s) ==
    LET w == split(s)
    IN IF Len(w) = 2 /\ s = strip(s) /\ IsWeekdayAbbr(w[1]) THEN strptime_bd(w[2]) ELSE NoDate

\* ---------------------------------------------------------------------
\* Date normalizers.  season_year is "" when the caller passes None.
\* ---------------------------------------------------------------------
iso_format(y, m, d) == fmt_d(y, 4) \o "-" \o fmt_d(m, 2) \o "-" \o fmt_d(d, 2)

\* the year of a month within the season that starts in `year`
normalized_year(year, month_num) == IF month_num >= 7 THEN year ELSE year + 1

\* the common tail of the three normalizers: any conversion that raised
\* ends in the handler that returns None
season_relative(month_num, day, season_year, default_year) ==
    IF month_num = Raised \/ day = Raised THEN None
    ELSE IF season_year = ""
         THEN (IF default_year = Raised THEN None
               ELSE Str(iso_format(default_year, month_num, day)))
    ELSE IF int(season_year) = Raised THEN None
    ELSE Str(iso_format(normalized_year(int(season_year), month_num), month_num, day))

\* month, day = md.split('/'); strptime(month, '%b').month; int(day)
month_day(md, season_year, default_year) ==
    LET Unpacked(p) ==
            IF Len(p) # 2 THEN None
            ELSE season_relative(strptime_b(p[1]), int(p[2]), season_year, default_year)
    IN Unpacked(split_on(md, "/"))

\* parsers.fixture_parser.normalize_date
normalize_date(date_str, season_year) ==
    LET Parts(parts) ==
            IF Len(parts) = 2 /\ Contains(parts[2], "/")
            THEN month_day(parts[2], season_year, CurrentYear)
            ELSE IF Len(parts) = 1 /\ Contains(parts[1], "/")
            THEN month_day(parts[1], season_year, CurrentYear)
            ELSE IF strptime_ymd(date_str).ok THEN Str(date_str)
            ELSE None
    IN IF date_str = "" THEN None ELSE Parts(split(date_str))

\* sync_fixtures.normalize_openfootball_date: int(season_year) is not
\* guarded, so a missing season raises and None is returned
normalize_openfootball_date(date_str, season_year) ==
    LET Parts(parts) ==
            IF parts = <<>> THEN None
            ELSE month_day(IF Len(parts) = 2 THEN parts[2] ELSE parts[1], season_year, Raised)
    IN IF date_str = "" THEN None ELSE Parts(split(date_str))

\* re.match(r'\d{4}-\d{1,2}-\d{1,2}', s) on the pieces of s.split('-')
matches_iso(p) ==
    /\ Len(p) >= 3
    /\ Len(p[1]) = 4 /\ AllDigits(p[1])
    /\ Len(p[2]) \in {1, 2} /\ AllDigits(p[2])
    /\ p[3] # "" /\ IsDigit(Head(p[3]))

\* re.match(r'\d{1,2}\.\d{1,2}\.\d{4}', s) on the pieces of s.split('.')
matches_dotted(p) ==
    /\ Len(p) >= 3
    /\ Len(p[1]) \in {1, 2} /\ AllDigits(p[1])
    /\ Len(p[2]) \in {1, 2} /\ AllDigits(p[2])
    /\ Len(p[3]) >= 4 /\ AllDigits(SubSeq(p[3], 1, 4))

\* a, b, c = map(int, pieces): three pieces, each an int, or the handler
three_ints(p) == Len(p) = 3 /\ int(p[1]) # Raised /\ int(p[2]) # Raised /\ int(p[3]) # Raised

from_strptime(dt, season_year) == season_relative(dt.m, dt.d, season_year, CurrentYear)

\* enhanced_ingestion.normalize_date
normalize_date_enhanced(date_str, season_year) ==
    LET Iso(p) == IF three_ints(p) THEN Str(iso_format(int(p[1]), int(p[2]), int(p[3]))) ELSE None
        Dotted(p) == IF three_ints(p) THEN Str(iso_format(int(p[3]), int(p[2]), int(p[1]))) ELSE None
        Formats(abd, bd) ==
            IF abd.ok /\ from_strptime(abd, season_year) # None THEN from_strptime(abd, season_year)
            ELSE IF bd.ok /\ from_strptime(bd, season_year) # None THEN from_strptime(bd, season_year)
            ELSE IF matches_iso(split_on(date_str, "-")) THEN Iso(split_on(date_str, "-"))
            ELSE IF matches_dotted(split_on(date_str, ".")) THEN Dotted(split_on(date_str, "."))
            ELSE None
    IN IF date_str = "" THEN None ELSE Formats(strptime_abd(date_str), strptime_bd(date_str))

\* ---------------------------------------------------------------------
\* The fixture-text parsers.  A file is the sequence of its lines; a line
\* is read as the white-space separated words the regular expressions of
\* the parsers tell apart (names are written with single blanks).
\* ---------------------------------------------------------------------
Letters ==
    {"a", "b", "c", "d", "e", "f", "g", "h", "i", "j", "k", "l", "m", "n", "o", "p", "q", "r",
     "s", "t", "u", "v", "w", "x", "y", "z"}

\* \w and the class [\w &'\-\.] of the team-name groups (ASCII)
IsWordChar(c) == IsDigit(c) \/ c = "_" \/ LowerChar(c) \in Letters
IsNameChar(c) == IsWordChar(c) \/ c = " " \/ c = "&" \/ c = "'" \/ c = "-" \/ c = "."

RECURSIVE IsNameWord(_)
IsNameWord(w) == w = "" \/ (IsNameChar(Head(w)) /\ IsNameWord(Tail(w)))

\* the longest prefix of w made of name characters
RECURSIVE NamePrefix(_)
NamePrefix(w) == IF w # "" /\ IsNameChar(Head(w)) THEN Head(w) \o NamePrefix(Tail(w)) ELSE ""

StartsWith(s, p) == Len(s) >= Len(p) /\ SubSeq(s, 1, Len(p)) = p

\* (\d{1,2}\.\d{2}) : a kick-off time
IsTime(w) ==
    LET Pieces(p) == /\ Len(p) = 2
                     /\ Len(p[1]) \in {1, 2} /\ AllDigits(p[1])
                     /\ Len(p[2]) = 2 /\ AllDigits(p[2])
    IN Pieces(split_on(w, "."))

\* (\d+)-(\d+) : a score
IsScore(w) ==
    LET Pieces(p) == Len(p) = 2 /\ p[1] # "" /\ AllDigits(p[1]) /\ p[2] # "" /\ AllDigits(p[2])
    IN Pieces(split_on(w, "-"))

\* \([^)]+\) : the half-time score in brackets
IsHalfTime(w) ==
    /\ Len(w) >= 3 /\ Head(w) = "(" /\ SubSeq(w, Len(w), Len(w)) = ")"
    /\ ~Contains(SubSeq(w, 2, Len(w) - 1), ")")

\* ' '.join(words[i..j])
RECURSIVE JoinWords(_, _, _)
JoinWords(w, i, j) ==
    IF i > j THEN ""
    ELSE IF i = j THEN w[i]
    ELSE w[i] \o " " \o JoinWords(w, i + 1, j)

\* the greedy run of name characters that starts at word i
RECURSIVE NameRun(_, _)
NameRun(w, i) ==
    IF i > Len(w) THEN ""
    ELSE IF IsNameWord(w[i])
         THEN (IF i < Len(w) /\ NamePrefix(w[i + 1]) # ""
               THEN w[i] \o " " \o NameRun(w, i + 1) ELSE w[i])
    ELSE NamePrefix(w[i])

\* where the away name starts when the score is word i; 0 when the rest of
\* the pattern does not match there
AwayStart(w, i) ==
    IF i + 2 <= Len(w) /\ IsHalfTime(w[i + 1]) /\ NamePrefix(w[i + 2]) # "" THEN i + 2
    ELSE IF i + 1 <= Len(w) /\ NamePrefix(w[i + 1]) # "" THEN i + 1
    ELSE 0

NoMatch == [ok |-> FALSE, home_team |-> "", away_team |-> "", home_score |-> NoScore,
            away_score |-> NoScore]

\* the match-line pattern: time? home score (half-time)? away; the home
\* group is lazy, so the first word that can be the score is the score
match_line(line) ==
    LET Words(w) ==
            LET t == IF Len(w) >= 1 /\ IsTime(w[1]) THEN 1 ELSE 0
                At(cands) ==
                    IF cands = {} THEN NoMatch
                    ELSE LET Score(i, p) ==
                                 [ok |-> TRUE, home_team |-> JoinWords(w, t + 1, i - 1),
                                  away_team |-> strip(NameRun(w, AwayStart(w, i))),
                                  home_score |-> int(p[1]), away_score |-> int(p[2])]
                             First(i) == Score(i, split_on(w[i], "-"))
                         IN First(CHOOSE i \in cands : \A j \in cands : i <= j)
            IN At({ i \in (t + 2)..Len(w) :
                      /\ IsScore(w[i])
                      /\ \A j \in (t + 1)..(i - 1) : IsNameWord(w[j])
                      /\ AwayStart(w, i) # 0 })
    IN Words(split(line))

\* the alternative pattern: home (v | vs | -) away; the home group is
\* greedy, so the last separator is the separator
alt_match_line(line) ==
    LET Words(w) ==
            LET At(cands) ==
                    IF cands = {} THEN NoMatch
                    ELSE LET Last(i) ==
                                 [ok |-> TRUE, home_team |-> JoinWords(w, 1, i - 1),
                                  away_team |-> strip(NameRun(w, i + 1)),
                                  home_score |-> NoScore, away_score |-> NoScore]
                         IN Last(CHOOSE i \in cands : \A j \in cands : i >= j)
            IN At({ i \in 2..(Len(w) - 1) :
                      /\ w[i] \in {"v", "vs", "-"}
                      /\ \A j \in 1..(i - 1) : IsNameWord(w[j])
                      /\ NamePrefix(w[i + 1]) # "" })
    IN Words(split(line))

\* re.match(r'\[(.+)\]', line).group(1): the text up to the last ']', ""
\* when the line is no date header
RECURSIVE LastIndexOf(_, _, _)
LastIndexOf(s, c, i) ==
    IF i = 0 THEN 0
    ELSE IF SubSeq(s, i, i) = c THEN i
    ELSE LastIndexOf(s, c, i - 1)
date_header(line) ==
    LET Close(j) == IF Head(line) = "[" /\ j >= 3 THEN SubSeq(line, 2, j - 1) ELSE ""
    IN IF line = "" THEN "" ELSE Close(LastIndexOf(line, "]", Len(line)))

\* team_mapper.get(name, name)
mapper_get(team_mapper, name) ==
    IF name \in DOMAIN team_mapper THEN team_mapper[name] ELSE name

\* datetime.today().date()
Today == << 2026, 11, 4 >>
NotAfterToday(dt) ==
    \/ dt.y < Today[1]
    \/ (dt.y = Today[1] /\ dt.m < Today[2])
    \/ (dt.y = Today[1] /\ dt.m = Today[2] /\ dt.d <= Today[3])

\* is_completed of a scored line: True unless the date parses and lies in
\* the future
completed_by_date(match_date) ==
    LET Parsed(dt) == IF dt.ok THEN NotAfterToday(dt) ELSE TRUE
    IN IF match_date = None \/ match_date.v = "" THEN TRUE ELSE Parsed(strptime_ymd(match_date.v))

SkippedLine(line) == line = "" \/ Head(line) = "=" \/ Head(line) = "#"

\* the state of the loop over the lines
ParseState(current_date, current_round, fixtures) ==
    [current_date |-> current_date, current_round |-> current_round, fixtures |-> fixtures]

TextRec(d, m, team_mapper, stage, done) ==
    [match_date |-> d, home_team |-> mapper_get(team_mapper, m.home_team),
     away_team |-> mapper_get(team_mapper, m.away_team), stage |-> stage, venue |-> "",
     is_completed |-> done, home_score |-> m.home_score, away_score |-> m.away_score]

\* one line of parsers.fixture_parser.parse_fixture_txt
parse_txt_line(ps, raw, team_mapper, season_year) ==
    LET MatchDate == IF ps.current_date # "" THEN normalize_date(ps.current_date, season_year)
                     ELSE None
        Line(line) ==
            LET Alt(a) ==
                    IF a.ok
                    THEN [ps EXCEPT !.fixtures = Append(@,
                            TextRec(MatchDate, a, team_mapper, ps.current_round, FALSE))]
                    ELSE ps
                Scored(m) ==
                    IF m.ok
                    THEN [ps EXCEPT !.fixtures = Append(@,
                            TextRec(MatchDate, m, team_mapper, ps.current_round,
                                    completed_by_date(MatchDate)))]
                    ELSE Alt(alt_match_line(line))
            IN IF SkippedLine(line) THEN ps
               ELSE IF StartsWith(Lower(line), "matchday") \/ StartsWith(Lower(line), "round")
               THEN [ps EXCEPT !.current_round = line]
               ELSE IF date_header(line) # "" THEN [ps EXCEPT !.current_date = date_header(line)]
               ELSE Scored(match_line(line))
    IN Line(strip(raw))

RECURSIVE parse_txt_lines(_, _, _, _, _)
parse_txt_lines(ps, lines, i, team_mapper, season_year) ==
    IF i > Len(lines) THEN ps
    ELSE parse_txt_lines(parse_txt_line(ps, lines[i], team_mapper, season_year), lines, i + 1,
                         team_mapper, season_year)

\* parsers.fixture_parser.parse_fixture_txt
parse_fixture_txt(lines, team_mapper, season_year) ==
    parse_txt_lines(ParseState("", "", <<>>), lines, 1, team_mapper, season_year).fixtures

\* one line of sync_fixtures.parse_openfootball_fixture_txt: no stage, no
\* alternative pattern, and a date only when a season year is known
parse_openfootball_line(ps, raw, team_mapper, season_year) ==
    LET MatchDate == IF ps.current_date # "" /\ season_year # ""
                     THEN normalize_openfootball_date(ps.current_date, season_year)
                     ELSE None
        Line(line) ==
            LET Scored(m) ==
                    IF m.ok
                    THEN [ps EXCEPT !.fixtures = Append(@,
                            TextRec(MatchDate, m, team_mapper, "", completed_by_date(MatchDate)))]
                    ELSE ps
            IN IF SkippedLine(line) \/ StartsWith(line, "Matchday") THEN ps
               ELSE IF date_header(line) # "" THEN [ps EXCEPT !.current_date = date_header(line)]
               ELSE Scored(match_line(line))
    IN Line(strip(raw))

RECURSIVE parse_openfootball_lines(_, _, _, _, _)
parse_openfootball_lines(ps, lines, i, team_mapper, season_year) ==
    IF i > Len(lines) THEN ps
    ELSE parse_openfootball_lines(parse_openfootball_line(ps, lines[i], team_mapper, season_year),
                                  lines, i + 1, team_mapper, season_year)

\* sync_fixtures.parse_openfootball_fixture_txt
parse_openfootball_fixture_txt(lines, team_mapper, season_year) ==
    parse_openfootball_lines(ParseState("", "", <<>>), lines, 1, team_mapper, season_year).fixtures

\* ---------------------------------------------------------------------
\* The raw-data tree: repositories (sub-directories of DATA_PATH) and their
\* files in os.walk order.  A file is described by what the drivers look
\* at: its directory segments, its name and its extension.
\* ---------------------------------------------------------------------
File(repo, rel, squads, clubs, clubname, ext, season, tag) ==
    [repo |-> repo, rel |-> rel, segSquads |-> squads, segClubs |-> clubs,
     nameHasClub |-> clubname, ext |-> ext, seasonDir |-> season, in2024 |-> tag]

Tree1 ==
    << << File("eng-england", "2023-24/1-premierleague.txt", FALSE, FALSE, FALSE, "txt", "2023", FALSE) >>,
       << File("es-espana", "README.md", FALSE, FALSE, FALSE, "md", "", FALSE),
          File("es-espana", "2023-24/1-liga.csv", FALSE, FALSE, FALSE, "csv", "2023", FALSE) >> >>

Tree2 ==
    << << File("clubs", "europe/eng.clubs.txt", FALSE, TRUE, TRUE, "txt", "", FALSE),
          File("clubs", "europe/clubs.json", FALSE, TRUE, TRUE, "json", "", FALSE) >>,
       << File("players", "squads/arsenal.txt", TRUE, FALSE, FALSE, "txt", "", FALSE) >> >>

Tree3 ==
    << << File("eng-england", "2024-25/1-premierleague.txt", FALSE, FALSE, FALSE, "txt", "2024", TRUE),
          File("eng-england", "2024-25/notes.md", FALSE, FALSE, FALSE, "md", "2024", TRUE) >> >>

Trees == << Tree1, Tree2, Tree3 >>

RepoName(tr, r) == Trees[tr][r][1].repo
NumRepos(tr) == Len(Trees[tr])
NumFiles(tr, r) == Len(Trees[tr][r])
FileAt(tr, r, i) == Trees[tr][r][i]
Pos(tr) == { p \in (1..NumRepos(tr)) \X (1..3) : p[2] <= NumFiles(tr, p[1]) }

\* a variant that leaves the repository name out of the key
state_key_without_repo(f) == << "", f.rel >>

\* state_key = f"{repo_name}/{os.path.relpath(file_path, repo_path)}"
state_key(f) == << f.repo, f.rel >>
Keys(tr) == { state_key(FileAt(tr, p[1], p[2])) : p \in Pos(tr) }

\* ---------------------------------------------------------------------
\* Dispatch: the classification of a file by name and path
\* ---------------------------------------------------------------------
in_squads_dir(f) == f.segSquads
in_clubs_dir(f) == f.segClubs
is_club_file(f) == f.nameHasClub
is_fixture_txt(f) == f.ext = "txt" /\ ~in_squads_dir(f) /\ ~in_clubs_dir(f) /\ ~is_club_file(f)

Route(f) ==
    IF f.ext = "json" /\ is_club_file(f) THEN "club_json"
    ELSE IF f.ext = "txt" /\ is_club_file(f) THEN "club_txt"
    ELSE IF f.ext = "csv" THEN "fixture_csv"
    ELSE IF is_fixture_txt(f) THEN "fixture_txt"
    ELSE IF f.ext = "txt" /\ in_squads_dir(f) THEN "squad_txt"
    ELSE "unknown"

Recognized(f) == Route(f) # "unknown"

\* extract_season_year: the YYYY of a path segment that looks like YYYY-YY
extract_season_year(f) == f.seasonDir

\* ---------------------------------------------------------------------
\* File contents and what the parsers return for them.  The bytes of a
\* file are a content number; the parsers are tables from content to the
\* list of record dictionaries.
\* ---------------------------------------------------------------------
FixtureRec(d, h, a, done, hs, as) ==
    [match_date |-> d, home_team |-> h, away_team |-> a, stage |-> "", venue |-> "",
     is_completed |-> done, home_score |-> hs, away_score |-> as]

TeamNames ==
    {"Arsenal", "Chelsea", "Arsenal FC", "Chelsea FC", "The Gunners", "The Blues", "Everton"}

parse_fixture_file(b) ==
    IF b = 1
    THEN << FixtureRec(Str("2023-08-11"), "Arsenal", "Chelsea", TRUE, 2, 1) >>
    ELSE << FixtureRec(Str("2023-08-11"), "Arsenal", "Chelsea", TRUE, 2, 1),
            FixtureRec(Str("2023-08-12"), "Chelsea", "Arsenal", TRUE, 21, 0) >>

ClubRec(n, y, st, c, co) ==
    [name |-> n, founded_year |-> y, stadium_name |-> st, city |-> c, country |-> co,
     alternative_names |-> ""]

parse_club_file(b) ==
    IF b = 1
    THEN << ClubRec("Arsenal", 1886, "Emirates", "London", "") >>
    ELSE << ClubRec("Arsenal", 1886, "Emirates Stadium", "London", ""),
            ClubRec("", 0, "", "", "") >>

PlayerRec(n, p, y, nat) == [name |-> n, position |-> p, birth_year |-> y, nationality |-> nat]

parse_squad_file(b) ==
    IF b = 1
    THEN << PlayerRec("Saka", "FW", 2001, "ENG") >>
    ELSE << PlayerRec("Saka", "MF", 2001, "ENG") >>

\* club name a squad file stands for: basename, '_' -> ' ', title-cased
squad_club_name(f) == "Arsenal"

\* ---------------------------------------------------------------------
\* The relational store (app/models/models.py).  Each table is the
\* sequence of its committed rows in insertion order; ids are serial.
\* ---------------------------------------------------------------------
EmptyDb ==
    [clubs |-> <<>>, teams |-> <<>>, competitions |-> <<>>, seasons |-> <<>>,
     fixtures |-> <<>>, results |-> <<>>, players |-> <<>>, audits |-> <<>>]

Rows(tbl) == { tbl[i] : i \in 1..Len(tbl) }
NextId(tbl) == Len(tbl) + 1
MinId(rows) == CHOOSE i \in { r.id : r \in rows } : \A r \in rows : i <= r.id
MaxId(rows) == CHOOSE i \in { r.id : r \in rows } : \A r \in rows : i >= r.id
\* Query.first(): the row with the lowest id
FirstId(rows) == IF rows = {} THEN NoId ELSE MinId(rows)
\* {key: row for row in query}: the last row read wins
LastId(rows) == IF rows = {} THEN NoId ELSE MaxId(rows)

ClubRow(id, rec) ==
    [id |-> id, name |-> rec.name, founded_year |-> rec.founded_year,
     stadium_name |-> rec.stadium_name, city |-> rec.city, country |-> rec.country,
     alternative_names |-> rec.alternative_names]

\* a variant that records the key without the file's relative path
log_audit_key_lost(db, repo, file_path, records_added, records_updated, sha1) ==
    [db EXCEPT !.audits = Append(@,
        [repo |-> repo, file_path |-> << repo, "" >>, records_added |-> records_added,
         records_updated |-> records_updated, hash |-> sha1])]

\* a variant that keeps only the newest audit row
log_audit_newest_only(db, repo, file_path, records_added, records_updated, sha1) ==
    [db EXCEPT !.audits = << [repo |-> repo, file_path |-> file_path,
                              records_added |-> records_added,
                              records_updated |-> records_updated, hash |-> sha1] >>]

\* log_audit: one IngestionAudit row, added and committed
log_audit(db, repo, file_path, records_added, records_updated, sha1) ==
    [db EXCEPT !.audits = Append(@,
        [repo |-> repo, file_path |-> file_path, records_added |-> records_added,
         records_updated |-> records_updated, hash |-> sha1])]

\* f"{year_start}-{year_end}"
SeasonName(year_start, year_end) == fmt_d(year_start, 1) \o "-" \o fmt_d(year_end, 1)

\* get_or_create_season: find-or-create the Competition named after the
\* repository and its Season; both are committed on creation
get_or_create_season(db, season_year, repo_name) ==
    IF season_year = "" THEN [db |-> db, id |-> NoId]
    ELSE
      LET found == { c \in Rows(db.competitions) : c.name = repo_name }
          db1 == IF found = {}
                 THEN [db EXCEPT !.competitions = Append(@,
                          [id |-> NextId(db.competitions), name |-> repo_name, country |-> ""])]
                 ELSE db
          comp_id == IF found = {} THEN NextId(db.competitions) ELSE FirstId(found)
          year_start == IntOfYear(season_year)
          year_end == year_start + 1
          seas == { s \in Rows(db1.seasons) : s.year_start = year_start /\ s.year_end = year_end
                                                /\ s.competition_id = comp_id }
      IN IF seas = {}
         THEN [db |-> [db1 EXCEPT !.seasons = Append(@,
                        [id |-> NextId(db1.seasons), competition_id |-> comp_id,
                         year_start |-> year_start, year_end |-> year_end,
                         season_name |-> SeasonName(year_start, year_end)])],
               id |-> NextId(db1.seasons)]
         ELSE [db |-> db1, id |-> FirstId(seas)]

\* ---------------------------------------------------------------------
\* Validation gates
\* ---------------------------------------------------------------------
ScoreOk(fx) ==
    fx.is_completed =>
        /\ fx.home_score # NoScore /\ fx.away_score # NoScore
        /\ 0 <= fx.home_score /\ fx.home_score <= 20
        /\ 0 <= fx.away_score /\ fx.away_score <= 20

\* datetime.strptime(fixture['match_date'], '%Y-%m-%d') does not raise
DateParses(match_date) == match_date.t = "str" /\ strptime_ymd(match_date.v).ok

\* sync_fixtures.validate_fixture: the date must parse as %Y-%m-%d (None
\* raises TypeError, which is caught like ValueError)
validate_fixture_legacy(fx) ==
    /\ fx.home_team # "" /\ fx.away_team # ""
    /\ DateParses(fx.match_date)
    /\ ScoreOk(fx)

\* parsers.fixture_parser.validate_fixture: the date is parsed only when
\* there is one; a missing date passes
validate_fixture(fx) ==
    /\ fx.home_team # "" /\ fx.away_team # ""
    /\ (fx.match_date = None \/ fx.match_date.v = "" \/ DateParses(fx.match_date))
    /\ ScoreOk(fx)

validate_club(c) ==
    /\ c.name # ""
    /\ (c.founded_year # 0 => (1800 <= c.founded_year /\ c.founded_year <= CurrentYear))

\* ---------------------------------------------------------------------
\* Upsert engine for fixtures.  st is the state of one call:
\*   com  the committed store,  cur  the session's view (com plus pending),
\*   club_map / team_map  the in-memory name maps,
\*   ins  the Fixture objects collected in to_insert,  updated  the counter.
\* ---------------------------------------------------------------------
InitialMaps(db, names) ==
    LET club_map == [n \in TeamNames |->
                        IF n \in names
                        THEN LastId({ c \in Rows(db.clubs) : c.name = n })
                        ELSE NoId]
        club_ids == { club_map[n] : n \in TeamNames } \ {NoId}
        team_map == [n \in TeamNames |->
                        LastId({ t \in Rows(db.teams) :
                                   /\ t.club_id \in club_ids
                                   /\ \E c \in Rows(db.clubs) : c.id = t.club_id /\ c.name = n })]
    IN [club_map |-> club_map, team_map |-> team_map]

\* a variant that creates the placeholder Club and Team without looking the
\* name up and without recording them in the maps
EnsureTeam_unrecorded(st, name) ==
    LET cur1 == [st.cur EXCEPT !.clubs = Append(@,
                    ClubRow(NextId(st.cur.clubs), ClubRec(name, 0, "", "", "")))]
        cur2 == [cur1 EXCEPT !.teams = Append(@,
                    [id |-> NextId(cur1.teams), club_id |-> NextId(st.cur.clubs),
                     team_type |-> "club"])]
    IN [st EXCEPT !.cur = cur2, !.com = cur2]

\* placeholder Club and Team for a name without a team id; each creation
\* is followed by db.commit(), which also commits whatever is pending
EnsureTeam(st, name) ==
    LET known == st.club_map[name]
        byName == { c \in Rows(st.cur.clubs) : c.name = name }
        newClub == known = NoId /\ byName = {}
        cur1 == IF newClub
                THEN [st.cur EXCEPT !.clubs = Append(@,
                        ClubRow(NextId(st.cur.clubs), ClubRec(name, 0, "", "", "")))]
                ELSE st.cur
        club_id == IF known # NoId THEN known
                   ELSE IF newClub THEN NextId(st.cur.clubs) ELSE FirstId(byName)
        teams == { t \in Rows(cur1.teams) : t.club_id = club_id /\ t.team_type = "club" }
        cur2 == IF teams = {}
                THEN [cur1 EXCEPT !.teams = Append(@,
                        [id |-> NextId(cur1.teams), club_id |-> club_id, team_type |-> "club"])]
                ELSE cur1
        team_id == IF teams = {} THEN NextId(cur1.teams) ELSE FirstId(teams)
    IN [st EXCEPT !.cur = cur2,
                  !.com = IF newClub \/ teams = {} THEN cur2 ELSE st.com,
                  !.club_map = [@ EXCEPT ![name] = club_id],
                  !.team_map = [@ EXCEPT ![name] = team_id]]

\* home_id and away_id are both read from the map before either placeholder
\* is created
ResolveTeams(st, fx) ==
    LET home0 == st.team_map[fx.home_team]
        away0 == st.team_map[fx.away_team]
        Away(s1) ==
            LET Both(s2) ==
                    [st |-> s2,
                     home_id |-> IF home0 = NoId THEN s1.team_map[fx.home_team] ELSE home0,
                     away_id |-> IF away0 = NoId THEN s2.team_map[fx.away_team] ELSE away0]
            IN Both(IF away0 = NoId THEN EnsureTeam(s1, fx.away_team) ELSE s1)
    IN Away(IF home0 = NoId THEN EnsureTeam(st, fx.home_team) ELSE st)

NewFixture(fx, home_id, away_id, season_id) ==
    [season_id |-> season_id, match_date |-> fx.match_date, home_team_id |-> home_id,
     away_team_id |-> away_id, stage |-> fx.stage, venue |-> fx.venue,
     is_completed |-> fx.is_completed]

\* the stored fixture that the dictionary `existing` holds under a key
ExistingHit(cur, existing_ids, key) ==
    LastId({ r \in Rows(cur.fixtures) :
               /\ r.id \in existing_ids
               /\ << r.match_date, r.home_team_id, r.away_team_id >> = key })

SetResult(cur, fid, hs, as) ==
    IF \E x \in Rows(cur.results) : x.fixture_id = fid
    THEN [cur EXCEPT !.results = [i \in 1..Len(@) |->
            IF @[i].fixture_id = fid
            THEN [@[i] EXCEPT !.home_score = hs, !.away_score = as] ELSE @[i]]]
    ELSE [cur EXCEPT !.results = Append(@,
            [id |-> NextId(cur.results), fixture_id |-> fid, home_score |-> hs, away_score |-> as])]

ResultDiffers(cur, fid, hs, as) ==
    \/ ~\E x \in Rows(cur.results) : x.fixture_id = fid
    \/ \E x \in Rows(cur.results) : x.fixture_id = fid /\ (x.home_score # hs \/ x.away_score # as)

\* one iteration of the loop of sync_fixtures.bulk_upsert_fixtures
LegacyFixtureStep(st, fx, existing_ids, season_id) ==
    LET Step(s2, home_id, away_id) ==
            LET Found(fid) ==
                    IF home_id = NoId \/ away_id = NoId THEN s2
                    ELSE IF fid # NoId
                    THEN IF ResultDiffers(s2.cur, fid, fx.home_score, fx.away_score)
                         THEN [s2 EXCEPT !.cur = SetResult(s2.cur, fid, fx.home_score, fx.away_score),
                                         !.updated = @ + 1]
                         ELSE s2
                    ELSE [s2 EXCEPT !.ins = Append(@, NewFixture(fx, home_id, away_id, season_id))]
            IN Found(ExistingHit(s2.cur, existing_ids, << fx.match_date, home_id, away_id >>))
        Resolved(r) == Step(r.st, r.home_id, r.away_id)
    IN Resolved(ResolveTeams(st, fx))

\* one iteration of the loop of parsers.fixture_parser.bulk_upsert_fixtures
\* the update branch: stage, venue and completion are assigned; `updated`
\* counts the fixture when one of them or the result changed
UpdateFixture(s2, fx, fid) ==
    LET Changed(old, chRes) ==
            LET chStage == old.stage # fx.stage
                chVenue == old.venue # fx.venue /\ fx.venue # ""
                chDone == old.is_completed # fx.is_completed
                Edited(cur1) ==
                    [s2 EXCEPT
                       !.cur = IF chRes THEN SetResult(cur1, fid, fx.home_score, fx.away_score)
                               ELSE cur1,
                       !.updated = IF chStage \/ chVenue \/ chDone \/ chRes THEN @ + 1 ELSE @]
            IN Edited([s2.cur EXCEPT !.fixtures = [i \in 1..Len(@) |->
                        IF @[i].id = fid
                        THEN [@[i] EXCEPT !.stage = fx.stage,
                                          !.venue = IF chVenue THEN fx.venue ELSE @,
                                          !.is_completed = fx.is_completed]
                        ELSE @[i]]])
    IN Changed(CHOOSE x \in Rows(s2.cur.fixtures) : x.id = fid,
               /\ fx.is_completed /\ fx.home_score # NoScore /\ fx.away_score # NoScore
               /\ ResultDiffers(s2.cur, fid, fx.home_score, fx.away_score))

ParserFixtureStep(st, fx, existing_ids, season_id) ==
    LET Step(s2, home_id, away_id) ==
            LET Found(fid) ==
                    IF fx.match_date = None \/ fx.match_date.v = "" \/ home_id = NoId \/ away_id = NoId
                    THEN s2
                    ELSE IF fid # NoId THEN UpdateFixture(s2, fx, fid)
                    ELSE [s2 EXCEPT !.ins = Append(@, NewFixture(fx, home_id, away_id, season_id))]
            IN Found(ExistingHit(s2.cur, existing_ids, << fx.match_date, home_id, away_id >>))
        Resolved(r) == Step(r.st, r.home_id, r.away_id)
    IN Resolved(ResolveTeams(st, fx))

RECURSIVE FixtureLoop(_, _, _, _, _, _)
FixtureLoop(st, recs, i, existing_ids, season_id, legacy) ==
    IF i > Len(recs) THEN st
    ELSE FixtureLoop(IF legacy THEN LegacyFixtureStep(st, recs[i], existing_ids, season_id)
                     ELSE ParserFixtureStep(st, recs[i], existing_ids, season_id),
                     recs, i + 1, existing_ids, season_id, legacy)

\* db.bulk_save_objects(to_insert): the Fixture rows are inserted (the str
\* date becomes a DATE); objects reachable through relationships are not
RECURSIVE bulk_save_fixtures(_, _, _)
bulk_save_fixtures(cur, ins, i) ==
    IF i > Len(ins) THEN cur
    ELSE bulk_save_fixtures(
            [cur EXCEPT !.fixtures = Append(@,
                [id |-> NextId(cur.fixtures), season_id |-> ins[i].season_id,
                 match_date |-> ToDateColumn(ins[i].match_date),
                 home_team_id |-> ins[i].home_team_id, away_team_id |-> ins[i].away_team_id,
                 stage |-> ins[i].stage, venue |-> ins[i].venue,
                 is_completed |-> ins[i].is_completed])],
            ins, i + 1)

\* the rows fetched into `existing`: the three IN filters of the query
ExistingIds(db, keys) ==
    { r.id : r \in { x \in Rows(db.fixtures) :
                       /\ \E k \in keys : SqlDateEq(x.match_date, k[1])
                       /\ \E k \in keys : k[2] # NoId /\ x.home_team_id = k[2]
                       /\ \E k \in keys : k[3] # NoId /\ x.away_team_id = k[3] } }

NamesOf(recs) == { recs[i].home_team : i \in 1..Len(recs) } \cup { recs[i].away_team : i \in 1..Len(recs) }

UpsertOutcome(db, st, fail) ==
    IF fail
    THEN [db |-> st.com, added |-> 0, updated |-> 0, err |-> TRUE]
    ELSE [db |-> bulk_save_fixtures(st.cur, st.ins, 1), added |-> Len(st.ins),
          updated |-> st.updated, err |-> FALSE]

\* sync_fixtures.bulk_upsert_fixtures (the caller has validated the records);
\* fail: the store raises at bulk_save_objects / the final commit
bulk_upsert_fixtures_legacy(db, fixtures, season_id, fail) ==
    LET m == InitialMaps(db, NamesOf(fixtures))
        keys == { << fixtures[i].match_date, m.team_map[fixtures[i].home_team],
                     m.team_map[fixtures[i].away_team] >> : i \in 1..Len(fixtures) }
        st0 == [com |-> db, cur |-> db, club_map |-> m.club_map, team_map |-> m.team_map,
                ins |-> <<>>, updated |-> 0]
        st == FixtureLoop(st0, fixtures, 1, ExistingIds(db, keys), season_id, TRUE)
    IN UpsertOutcome(db, st, fail)

\* parsers.fixture_parser.bulk_upsert_fixtures
bulk_upsert_fixtures(db, fixtures, season_id, fail) ==
    LET valid == SelectSeq(fixtures, validate_fixture)
        m == InitialMaps(db, NamesOf(valid))
        keys == { k \in { << valid[i].match_date, m.team_map[valid[i].home_team],
                             m.team_map[valid[i].away_team] >> : i \in 1..Len(valid) } :
                    k[1] # None /\ k[1].v # "" /\ k[2] # NoId /\ k[3] # NoId }
        st0 == [com |-> db, cur |-> db, club_map |-> m.club_map, team_map |-> m.team_map,
                ins |-> <<>>, updated |-> 0]
        st == FixtureLoop(st0, valid, 1, ExistingIds(db, keys), season_id, FALSE)
    IN IF valid = <<>> THEN [db |-> db, added |-> 0, updated |-> 0, err |-> FALSE]
       ELSE UpsertOutcome(db, st, fail)

\* ---------------------------------------------------------------------
\* Upsert engines for clubs and players (sync_fixtures.py)
\* ---------------------------------------------------------------------
ClubFields(c) == << c.founded_year, c.stadium_name, c.city, c.country, c.alternative_names >>

RECURSIVE ClubLoop(_, _, _)
ClubLoop(st, clubs, i) ==
    IF i > Len(clubs) THEN st
    ELSE LET c == clubs[i]
             rows == { r \in Rows(st.cur.clubs) : r.name = c.name }
             id == FirstId(rows)
             old == CHOOSE r \in rows : r.id = id
         IN ClubLoop(
              IF c.name \in st.existing
              THEN IF id = NoId THEN st
                   ELSE IF ClubFields(old) # ClubFields(c)
                   THEN [st EXCEPT !.cur.clubs = [k \in 1..Len(@) |->
                                       IF @[k].id = id THEN ClubRow(id, c) ELSE @[k]],
                                   !.updated = @ + 1]
                   ELSE st
              ELSE [st EXCEPT !.ins = Append(@, c), !.existing = @ \cup {c.name}],
              clubs, i + 1)

RECURSIVE bulk_save_clubs(_, _, _)
bulk_save_clubs(cur, ins, i) ==
    IF i > Len(ins) THEN cur
    ELSE bulk_save_clubs([cur EXCEPT !.clubs = Append(@, ClubRow(NextId(cur.clubs), ins[i]))],
                         ins, i + 1)

bulk_upsert_clubs_legacy(db, clubs, fail) ==
    LET names == { clubs[i].name : i \in 1..Len(clubs) }
        st0 == [cur |-> db, ins |-> <<>>, updated |-> 0,
                existing |-> { r.name : r \in { x \in Rows(db.clubs) : x.name \in names } }]
        st == ClubLoop(st0, clubs, 1)
    IN IF fail THEN [db |-> db, added |-> 0, updated |-> 0, err |-> TRUE]
       ELSE [db |-> bulk_save_clubs(st.cur, st.ins, 1), added |-> Len(st.ins),
             updated |-> st.updated, err |-> FALSE]

PlayerRow(id, p, club_id, team_id) ==
    [id |-> id, name |-> p.name, position |-> p.position, nationality |-> p.nationality,
     birth_year |-> p.birth_year, club_id |-> club_id, team_id |-> team_id]

RECURSIVE PlayerLoop(_, _, _, _, _, _)
PlayerLoop(st, players, i, existing_ids, club_id, team_id) ==
    IF i > Len(players) THEN st
    ELSE LET p == players[i]
             id == LastId({ r \in Rows(st.cur.players) : r.id \in existing_ids /\ r.name = p.name })
             old == CHOOSE r \in Rows(st.cur.players) : r.id = id
             new == [old EXCEPT
                        !.position = IF p.position # "" THEN p.position ELSE @,
                        !.nationality = IF p.nationality # "" THEN p.nationality ELSE @,
                        !.club_id = IF club_id # NoId THEN club_id ELSE @,
                        !.team_id = IF team_id # NoId THEN team_id ELSE @,
                        !.birth_year = IF p.birth_year # 0 THEN p.birth_year ELSE @]
         IN PlayerLoop(
              IF id # NoId
              THEN IF new # old
                   THEN [st EXCEPT !.cur.players = [k \in 1..Len(@) |->
                                       IF @[k].id = id THEN new ELSE @[k]],
                                   !.updated = @ + 1]
                   ELSE st
              ELSE [st EXCEPT !.ins = Append(@, p)],
              players, i + 1, existing_ids, club_id, team_id)

RECURSIVE bulk_save_players(_, _, _, _, _)
bulk_save_players(cur, ins, i, club_id, team_id) ==
    IF i > Len(ins) THEN cur
    ELSE bulk_save_players(
            [cur EXCEPT !.players = Append(@, PlayerRow(NextId(cur.players), ins[i], club_id, team_id))],
            ins, i + 1, club_id, team_id)

bulk_upsert_players_legacy(db, players, club_id, team_id, fail) ==
    LET names == { players[i].name : i \in 1..Len(players) }
        st0 == [cur |-> db, ins |-> <<>>, updated |-> 0]
        st == PlayerLoop(st0, players, 1, { r.id : r \in { x \in Rows(db.players) : x.name \in names } },
                         club_id, team_id)
    IN IF fail THEN [db |-> db, added |-> 0, updated |-> 0, err |-> TRUE]
       ELSE [db |-> bulk_save_players(st.cur, st.ins, 1, club_id, team_id),
             added |-> Len(st.ins), updated |-> st.updated, err |-> FALSE]

\* the squad branch's lookups: Club.name ILIKE %club_name%, then its Team
squad_club_id(db, f) == FirstId({ c \in Rows(db.clubs) : c.name = squad_club_name(f) })
squad_team_id(db, club_id) ==
    IF club_id = NoId THEN NoId ELSE FirstId({ t \in Rows(db.teams) : t.club_id = club_id })

\* ---------------------------------------------------------------------
\* The sync drivers: main() and sync_repo() of enhanced_ingestion.py
\* ("enhanced") and of sync_fixtures.py ("legacy")
\* ---------------------------------------------------------------------
VARIABLES
    tree,       \* which raw-data tree DATA_PATH holds
    content,    \* bytes of each file, by state key
    disk,       \* state.json: state key -> last ingested sha1
    db,         \* the committed store
    pc,         \* position of the running script; "idle" when none runs
    driver,     \* script of the current run
    force,      \* args.force
    runs,       \* number of invocations so far
    state,      \* the in-memory state map of the run
    ri, fi,     \* repository and file the walk is at
    sha1,       \* sha1 of the file at hand
    recs,       \* records the parser returned for it
    season_id,  \* season of the file at hand
    counts,     \* (added, updated) returned by the upsert
    bound,      \* sync_repo's classification locals have been assigned
    events,     \* disturbances so far: file edits, kills, file-system and store errors
    phases,     \* history: the steps each file went through in this run
    failed,     \* history: files whose handling raised in this run
    faulted,    \* history: files that hit a file-system or store error
    fdb,        \* history: the store when the file at hand was dispatched
    start,      \* history: state file and store when the run started
    prev,       \* history: how the previous run ended
    edited,     \* history: files edited since the previous run ended
    arg,        \* the call at hand when a function is exercised on its own
    ret         \* what that call returned

vars == << tree, content, disk, db, pc, driver, force, runs, state, ri, fi, sha1, recs,
           season_id, counts, bound, events, phases, failed, faulted, fdb, start, prev, edited,
           arg, ret >>

Drivers == {"enhanced", "legacy"}
Contents == {1, 2}
Hashes == { sha1_hex(b) : b \in Contents }

CurFile == FileAt(tree, ri, fi)
CurKey == state_key(CurFile)

NoPrev == [outcome |-> "none", force |-> FALSE, completed |-> {}, inflight |-> {}]

\* no function is exercised on its own
NoCall == [op |-> "none"]

Init ==
    /\ tree \in DOMAIN Trees
    /\ content = [k \in Keys(tree) |-> 1]
    /\ disk = [k \in Keys(tree) |-> NoHash]
    /\ db = EmptyDb
    /\ pc = "idle" /\ driver \in Drivers /\ force = FALSE /\ runs = 0
    /\ state = disk
    /\ ri = 0 /\ fi = 0 /\ sha1 = NoHash /\ recs = <<>> /\ season_id = NoId
    /\ counts = << 0, 0 >> /\ bound = FALSE /\ events = 0
    /\ phases = [k \in Keys(tree) |-> <<>>]
    /\ failed = {} /\ faulted = {}
    /\ fdb = EmptyDb
    /\ start = [disk |-> disk, db |-> db]
    /\ prev = NoPrev
    /\ edited = {}
    /\ arg = NoCall /\ ret = NoCall

\* a variant of the skip test that forgets args.force
ShouldSkip_ignoring_force(f, stored, h) == stored = h

\* the skip test of sync_repo
ShouldSkip(f, stored, h) == ~f /\ stored = h

\* a variant that leaves the entry as it was
advance_state_dropped(st, key, h) == st

\* state[state_key] = sha1
advance_state(st, key, h) == [st EXCEPT ![key] = h]

\* a variant that writes the state file after every file
disk_saved_per_file(d, st) == st

\* the loop body of sync_repo does not call save_state: handling a file
\* leaves the state file as it is
disk_after_file(d, st) == d

\* save_state / load_state: the state map as JSON, whole
save_state(st) == st
load_state(d) == d

Mark(key, what) == phases' = [phases EXCEPT ![key] = Append(@, what)]

ClearLocals ==
    /\ sha1' = NoHash /\ recs' = <<>> /\ season_id' = NoId /\ counts' = << 0, 0 >>
    /\ fdb' = EmptyDb

\* the history of a run ends with the run
EndOfRun ==
    /\ phases' = [k \in Keys(tree) |-> <<>>]
    /\ failed' = {} /\ faulted' = {}

\* `continue` / end of the loop body: on to the next file of the walk, or
\* back to main() when the walk is over
NextFile ==
    IF fi < NumFiles(tree, ri)
    THEN fi' = fi + 1 /\ ri' = ri /\ pc' = "unseen" /\ UNCHANGED bound
    ELSE fi' = 0 /\ ri' = ri + 1 /\ pc' = "repo" /\ bound' = FALSE

\* an exception that leaves sync_repo: main() logs it and takes the next repo
LeaveRepo == fi' = 0 /\ ri' = ri + 1 /\ pc' = "repo" /\ bound' = FALSE

\* a new file appears, or a file is rewritten, between two runs
EditFile(k, b) ==
    /\ pc = "idle" /\ runs < MaxRuns
    /\ events < MaxEvents
    /\ events' = events + 1
    /\ content[k] # b
    /\ content' = [content EXCEPT ![k] = b]
    /\ edited' = edited \cup {k}
    /\ UNCHANGED << arg, ret, tree, disk, db, pc, driver, force, runs, state, ri, fi, sha1, recs,
                    season_id, counts, bound, phases, failed, faulted, fdb, start, prev >>

\* main(): parse the arguments, load the state file
StartRun(f) ==
    /\ pc = "idle" /\ runs < MaxRuns
    /\ force' = f /\ runs' = runs + 1
    /\ state' = load_state(disk)
    /\ ri' = 1 /\ fi' = 0 /\ pc' = "repo" /\ bound' = FALSE
    /\ phases' = [k \in Keys(tree) |-> <<>>]
    /\ failed' = {} /\ faulted' = {}
    /\ start' = [disk |-> disk, db |-> db]
    /\ UNCHANGED << arg, ret, tree, events, content, disk, db, driver, sha1, recs, season_id, counts,
                    fdb, prev, edited >>

\* main(): next repository of the loop; git pull; call sync_repo
BeginRepo ==
    /\ pc = "repo" /\ ri <= NumRepos(tree)
    /\ fi' = 1 /\ pc' = "unseen" /\ bound' = FALSE
    /\ UNCHANGED << arg, ret, tree, events, content, disk, db, driver, force, runs, state, ri, sha1, recs,
                    season_id, counts, phases, failed, faulted, fdb, start, prev,
                    edited >>

\* sync_fixtures.sync_repo prints the classification locals of a file of
\* eng-england/2024-25 before it assigns them
DebugPrintUnbound ==
    driver = "legacy" /\ CurFile.repo = "eng-england" /\ CurFile.in2024 /\ ~bound

DebugPrintCrash ==
    /\ pc = "unseen" /\ DebugPrintUnbound
    /\ failed' = failed \cup {CurKey}
    /\ LeaveRepo
    /\ UNCHANGED << arg, ret, tree, events, content, disk, db, driver, force, runs, state, sha1, recs,
                    season_id, counts, phases, faulted, fdb, start, prev, edited >>

\* sha1 = sha1_of_file(file_path)
HashFile ==
    /\ pc = "unseen" /\ ~DebugPrintUnbound
    /\ sha1' = sha1_hex(content[CurKey])
    /\ bound' = TRUE
    /\ pc' = "hashed"
    /\ Mark(CurKey, "Hashed")
    /\ UNCHANGED << arg, ret, tree, events, content, disk, db, driver, force, runs, state, ri, fi, recs,
                    season_id, counts, failed, faulted, fdb, start, prev, edited >>

\* sha1_of_file raises (the file cannot be opened or read); the call is
\* outside the try block of the loop body
HashFileError ==
    /\ pc = "unseen" /\ ~DebugPrintUnbound
    /\ events < MaxEvents
    /\ events' = events + 1
    /\ failed' = failed \cup {CurKey} /\ faulted' = faulted \cup {CurKey}
    /\ Mark(CurKey, "HashError")
    /\ LeaveRepo
    /\ UNCHANGED << arg, ret, tree, content, disk, db, driver, force, runs, state, sha1, recs,
                    season_id, counts, fdb, start, prev, edited >>

SkipFile ==
    /\ pc = "hashed"
    /\ ShouldSkip(force, state[CurKey], sha1)
    /\ Mark(CurKey, "Skipped")
    /\ NextFile /\ ClearLocals
    /\ UNCHANGED << arg, ret, tree, events, content, disk, db, driver, force, runs, state, failed,
                    faulted, start, prev, edited >>

\* try: db = SessionLocal()
Dispatch ==
    /\ pc = "hashed"
    /\ ~ShouldSkip(force, state[CurKey], sha1)
    /\ pc' = "dispatched"
    /\ fdb' = db
    /\ Mark(CurKey, "Dispatched")
    /\ UNCHANGED << arg, ret, tree, events, content, disk, db, driver, force, runs, state, ri, fi, sha1, recs,
                    season_id, counts, bound, failed, faulted, start, prev, edited >>

IsFixtureRoute(f) == Route(f) \in {"fixture_csv", "fixture_txt"}

ParsedRecords(f, b) ==
    CASE IsFixtureRoute(f) -> parse_fixture_file(b)
      [] Route(f) \in {"club_json", "club_txt"} -> parse_club_file(b)
      [] OTHER -> parse_squad_file(b)

\* the branch of the file's route up to and including the parser call; the
\* fixture branches find-or-create the season first
ParseFile ==
    /\ pc = "dispatched" /\ Recognized(CurFile)
    /\ LET gs == IF IsFixtureRoute(CurFile)
                 THEN get_or_create_season(db, extract_season_year(CurFile), CurFile.repo)
                 ELSE [db |-> db, id |-> NoId]
       IN db' = gs.db /\ season_id' = gs.id
    /\ recs' = ParsedRecords(CurFile, content[CurKey])
    /\ pc' = "parsed"
    /\ Mark(CurKey, "Parsed")
    /\ UNCHANGED << arg, ret, tree, events, content, disk, driver, force, runs, state, ri, fi, sha1, counts,
                    bound, failed, faulted, fdb, start, prev, edited >>

\* the parser or get_or_create_season raises: early, before anything is
\* committed, or after the season rows have been committed
ParseFileError(early) ==
    /\ pc = "dispatched" /\ Recognized(CurFile)
    /\ events < MaxEvents
    /\ events' = events + 1
    /\ db' = IF IsFixtureRoute(CurFile) /\ ~early
             THEN get_or_create_season(db, extract_season_year(CurFile), CurFile.repo).db
             ELSE db
    /\ failed' = failed \cup {CurKey} /\ faulted' = faulted \cup {CurKey}
    /\ pc' = "except"
    /\ UNCHANGED << arg, ret, tree, content, disk, driver, force, runs, state, ri, fi, sha1, recs,
                    season_id, counts, bound, phases, fdb, start, prev, edited >>

\* else: "does not match any known pattern"; db.close(); state[state_key] = sha1
UnknownFile ==
    /\ pc = "dispatched" /\ ~Recognized(CurFile)
    /\ state' = advance_state(state, CurKey, sha1)
    /\ disk' = disk_after_file(disk, state')
    /\ Mark(CurKey, "StateSet")
    /\ NextFile /\ ClearLocals
    /\ UNCHANGED << arg, ret, tree, events, content, db, driver, force, runs, failed, faulted,
                    start, prev, edited >>

\* enhanced_ingestion.py calls bulk_upsert_clubs / bulk_upsert_fixtures /
\* bulk_upsert_players, names the module neither defines nor imports
UpsertNameError ==
    /\ pc = "parsed" /\ driver = "enhanced"
    /\ failed' = failed \cup {CurKey}
    /\ pc' = "except"
    /\ UNCHANGED << arg, ret, tree, events, content, disk, db, driver, force, runs, state, ri, fi, sha1, recs,
                    season_id, counts, bound, phases, faulted, fdb, start, prev,
                    edited >>

\* sync_fixtures.py: validate, then upsert with the module's own engines
LegacyUpsert(f, d, rs, sid, fail) ==
    CASE IsFixtureRoute(f) ->
            bulk_upsert_fixtures_legacy(d, SelectSeq(rs, validate_fixture_legacy), sid, fail)
      [] Route(f) \in {"club_json", "club_txt"} ->
            bulk_upsert_clubs_legacy(d, SelectSeq(rs, validate_club), fail)
      [] OTHER ->
            bulk_upsert_players_legacy(d, rs, squad_club_id(d, f),
                                       squad_team_id(d, squad_club_id(d, f)), fail)

UpsertFile ==
    /\ pc = "parsed" /\ driver = "legacy"
    /\ LET Returned(out) == db' = out.db /\ counts' = << out.added, out.updated >>
       IN Returned(LegacyUpsert(CurFile, db, recs, season_id, FALSE))
    /\ pc' = "upserted"
    /\ Mark(CurKey, "Upserted")
    /\ UNCHANGED << arg, ret, tree, events, content, disk, driver, force, runs, state, ri, fi, sha1, recs,
                    season_id, bound, failed, faulted, fdb, start, prev, edited >>

\* the store raises at bulk_save_objects or at the final commit
UpsertFileError ==
    /\ pc = "parsed" /\ driver = "legacy"
    /\ events < MaxEvents
    /\ events' = events + 1
    /\ db' = LegacyUpsert(CurFile, db, recs, season_id, TRUE).db
    /\ failed' = failed \cup {CurKey} /\ faulted' = faulted \cup {CurKey}
    /\ pc' = "except"
    /\ UNCHANGED << arg, ret, tree, content, disk, driver, force, runs, state, ri, fi, sha1, recs,
                    season_id, counts, bound, phases, fdb, start, prev, edited >>

AuditFile ==
    /\ pc = "upserted"
    /\ db' = log_audit(db, CurFile.repo, CurKey, counts[1], counts[2], sha1)
    /\ pc' = "audited"
    /\ Mark(CurKey, "Audited")
    /\ UNCHANGED << arg, ret, tree, events, content, disk, driver, force, runs, state, ri, fi, sha1, recs,
                    season_id, counts, bound, failed, faulted, fdb, start, prev,
                    edited >>

\* the commit of the audit row raises
AuditFileError ==
    /\ pc = "upserted"
    /\ events < MaxEvents
    /\ events' = events + 1
    /\ failed' = failed \cup {CurKey} /\ faulted' = faulted \cup {CurKey}
    /\ pc' = "except"
    /\ UNCHANGED << arg, ret, tree, content, disk, db, driver, force, runs, state, ri, fi, sha1, recs,
                    season_id, counts, bound, phases, fdb, start, prev, edited >>

\* db.close(); state[state_key] = sha1
AdvanceState ==
    /\ pc = "audited"
    /\ state' = advance_state(state, CurKey, sha1)
    /\ disk' = disk_after_file(disk, state')
    /\ Mark(CurKey, "StateSet")
    /\ NextFile /\ ClearLocals
    /\ UNCHANGED << arg, ret, tree, events, content, db, driver, force, runs, failed, faulted,
                    start, prev, edited >>

\* except SQLAlchemyError: rollback, close / except Exception: log
HandleError ==
    /\ pc = "except"
    /\ NextFile /\ ClearLocals
    /\ UNCHANGED << arg, ret, tree, events, content, disk, db, driver, force, runs, state, phases,
                    failed, faulted, start, prev, edited >>

\* main(): save_state(state, STATE_FILE_PATH) after the loop over the repos
SaveState ==
    /\ pc = "repo" /\ ri > NumRepos(tree)
    /\ disk' = save_state(state)
    /\ state' = disk'
    /\ pc' = "idle" /\ ri' = 0
    /\ prev' = [outcome |-> IF failed = {} THEN "clean" ELSE "errors", force |-> force,
                completed |-> {}, inflight |-> {}]
    /\ edited' = {}
    /\ EndOfRun
    /\ start' = [disk |-> disk', db |-> db]
    /\ UNCHANGED << arg, ret, tree, events, content, db, driver, force, runs, fi, sha1, recs,
                    season_id, counts, bound, fdb >>

InFlightPcs == {"dispatched", "parsed", "upserted", "audited", "except"}

\* the process is killed: memory is lost, the store keeps what was committed
Kill ==
    /\ pc # "idle"
    /\ events < MaxEvents
    /\ events' = events + 1
    /\ pc' = "idle" /\ ri' = 0 /\ fi' = 0 /\ bound' = FALSE
    /\ ClearLocals
    /\ state' = disk
    /\ prev' = [outcome |-> "killed", force |-> force,
                completed |-> { k \in Keys(tree) :
                                  \E i \in 1..Len(phases[k]) : phases[k][i] = "StateSet" },
                inflight |-> IF pc \in InFlightPcs THEN {CurKey} ELSE {}]
    /\ edited' = {}
    /\ EndOfRun
    /\ start' = [start EXCEPT !.db = db]
    /\ UNCHANGED << arg, ret, tree, content, disk, db, driver, force, runs >>

\* a caller of the parsers package upserts the records of a fixture file
CallBulkUpsertFixtures(b) ==
    /\ pc = "idle" /\ runs < MaxRuns
    /\ runs' = runs + 1
    /\ db' = bulk_upsert_fixtures(db, parse_fixture_file(b),
                                  FirstId(Rows(db.seasons)), FALSE).db
    /\ UNCHANGED << arg, ret, tree, events, content, disk, pc, driver, force, state, ri, fi, sha1, recs,
                    season_id, counts, bound, phases, failed, faulted, fdb, start,
                    prev, edited >>

Next ==
    \/ \E k \in Keys(tree), b \in Contents : EditFile(k, b)
    \/ \E f \in BOOLEAN : StartRun(f)
    \/ BeginRepo
    \/ DebugPrintCrash
    \/ HashFile
    \/ HashFileError
    \/ SkipFile
    \/ Dispatch
    \/ ParseFile
    \/ \E early \in BOOLEAN : ParseFileError(early)
    \/ UnknownFile
    \/ UpsertNameError
    \/ UpsertFile
    \/ UpsertFileError
    \/ AuditFile
    \/ AuditFileError
    \/ AdvanceState
    \/ HandleError
    \/ SaveState
    \/ Kill
    \/ \E b \in Contents : CallBulkUpsertFixtures(b)

Spec == Init /\ [][Next]_vars

TypeOK ==
    /\ pc \in {"idle", "repo", "unseen", "hashed", "dispatched", "parsed", "upserted",
               "audited", "except"}
    /\ runs \in 0..MaxRuns
    /\ \A k \in Keys(tree) : disk[k] \in Hashes \cup {NoHash}

\* ---------------------------------------------------------------------
\* Observations on a run
\* ---------------------------------------------------------------------
Has(k, what) == \E i \in 1..Len(phases[k]) : phases[k][i] = what

FileOf(k) == CHOOSE f \in { FileAt(tree, p[1], p[2]) : p \in Pos(tree) } : state_key(f) = k

\* the hash of the file's present content
HashOf(k) == sha1_hex(content[k])

\* audit rows committed since the run started that carry the key k
NewAudits(k) ==
    { i \in (Len(start.db.audits) + 1)..Len(db.audits) : db.audits[i].file_path = k }

\* the run has taken k through the skip test
Decided(k) == Has(k, "Skipped") \/ Has(k, "Dispatched")

\* the run is through with k
Finished(k) ==
    /\ phases[k] # <<>>
    /\ ~(pc \in {"hashed", "dispatched", "parsed", "upserted", "audited", "except"} /\ CurKey = k)

RunOver == pc = "repo" /\ ri > NumRepos(tree)

IsPrefix(p, q) == Len(p) <= Len(q) /\ p = SubSeq(q, 1, Len(p))

\* ---------------------------------------------------------------------
\* Claims
\* ---------------------------------------------------------------------

\* C1: after a run that handled every file without error and saved the
\* state map, a run without --force over unchanged files dispatches no
\* file, leaves every table of the store (audit log included) as it was
\* when the run started, and leaves the state map and the state file as
\* they were.
SyncIdempotent ==
    (pc # "idle" /\ prev.outcome = "clean" /\ edited = {} /\ ~force) =>
        /\ db = start.db
        /\ state = start.disk /\ disk = start.disk
        /\ \A k \in Keys(tree) : ~Has(k, "Dispatched")

\* a second run that has walked the whole tree and skipped every file,
\* after a first run that ingested rows
SyncIdempotentWitness ==
    /\ RunOver /\ prev.outcome = "clean" /\ edited = {} /\ ~force
    /\ \A k \in Keys(tree) : Has(k, "Skipped")
    /\ Len(db.audits) > 0
    /\ Len(db.fixtures) + Len(db.clubs) > 0

\* C2 (as claimed): whatever was ingested, the store holds at most one
\* Fixture row per (match_date, home team, away team, season).
OneFixturePerKey ==
    \A i, j \in 1..Len(db.fixtures) :
        (/\ db.fixtures[i].match_date = db.fixtures[j].match_date
         /\ db.fixtures[i].home_team_id = db.fixtures[j].home_team_id
         /\ db.fixtures[i].away_team_id = db.fixtures[j].away_team_id
         /\ db.fixtures[i].season_id = db.fixtures[j].season_id) => i = j

\* C3 (as claimed): when a forced run re-upserts a file whose hash is
\* already recorded, the upsert reports added = 0 and updated = 0, the audit
\* row written for it records 0 and 0, and no entity row was added since
\* the file was dispatched.
ForceReprocessAddsNothing ==
    (pc = "audited" /\ force /\ start.disk[CurKey] = sha1) =>
        /\ counts = << 0, 0 >>
        /\ db.audits[Len(db.audits)].records_added = 0
        /\ db.audits[Len(db.audits)].records_updated = 0
        /\ [db EXCEPT !.audits = <<>>] = [fdb EXCEPT !.audits = <<>>]

\* C4 (as claimed): a file that went through the skip test is handed to a
\* parser if and only if --force is set or its hash differs from the
\* stored one.
ParserIffForcedOrChanged ==
    \A k \in Keys(tree) :
        Decided(k) =>
            ((Has(k, "Dispatched") /\ Recognized(FileOf(k)))
                <=> (force \/ start.disk[k] # HashOf(k)))

\* the step that follows the hash of a file whose stored hash is equal,
\* in a run without --force
SkipStep ==
    /\ pc = "hashed" /\ pc' # "idle"
    /\ ~force /\ state[CurKey] = HashOf(CurKey)

SkipDecision ==
    \A k \in Keys(tree) :
        /\ Has(k, "Dispatched") => (force \/ start.disk[k] # HashOf(k))
        /\ Has(k, "Skipped") =>
              /\ ~force /\ start.disk[k] = HashOf(k)
              /\ state[k] = start.disk[k]
              /\ NewAudits(k) = {}
        /\ Has(k, "Parsed") => (Has(k, "Dispatched") /\ Recognized(FileOf(k)))
        /\ (Has(k, "Dispatched") /\ Finished(k) /\ ~Recognized(FileOf(k))) =>
              (~Has(k, "Parsed") /\ state[k] = HashOf(k))

\* C4 (amended): a hashed file passes the skip test if and only if --force
\* is set or its hash differs from the stored one; it is handed to a parser
\* only if, in addition, its type is recognized (a file of no recognized
\* type is neither skipped nor parsed: its state entry is advanced); the
\* step that skips a file leaves the store, the state map and the state
\* file unchanged, and no audit row is written for a skipped file.
SkipRule ==
    /\ []SkipDecision
    /\ [][SkipStep => (db' = db /\ state' = state /\ disk' = disk
                       /\ phases'[CurKey] = Append(phases[CurKey], "Skipped"))]_vars

\* one run has skipped one file and dispatched another
SkipRuleWitness ==
    \E k1, k2 \in Keys(tree) :
        /\ Has(k1, "Skipped") /\ Has(k2, "Dispatched")
        /\ Recognized(FileOf(k2)) /\ ~force

\* the steps of a file in the order of the state machine
PhaseOrder(k) ==
    LET p == SelectSeq(phases[k], LAMBDA x : x # "StateSet")
    IN \/ IsPrefix(p, << "Hashed", "Skipped" >>)
       \/ IsPrefix(p, << "Hashed", "Dispatched", "Parsed", "Upserted", "Audited" >>)
       \/ p = << "HashError" >>

\* C5 (as claimed): the steps of every file follow the state machine, and a
\* dispatched file of a recognized type that the run is through with, and
\* whose parser and store calls raised nothing, was upserted and audited.
FileStateMachine ==
    \A k \in Keys(tree) :
        /\ PhaseOrder(k)
        /\ (Finished(k) /\ Has(k, "Dispatched") /\ Recognized(FileOf(k)) /\ k \notin faulted)
              => (Has(k, "Upserted") /\ Has(k, "Audited"))

\* C6 (as claimed): for a file the run is through with, the state entry
\* was set if and only if exactly one audit row with the file's key and
\* hash was committed in the run.
StateIffAudit ==
    \A k \in Keys(tree) :
        Finished(k) =>
            (Has(k, "StateSet")
                <=> Cardinality({ i \in NewAudits(k) : db.audits[i].hash = HashOf(k) }) = 1)

\* C6 (amended): for a file of a recognized type the state entry is set to
\* h if and only if exactly one audit row with the file's key and h was
\* committed in the run, the row being committed first; a dispatched file
\* of no recognized type gets its state entry set to h without any audit
\* row.
StateFollowsAudit ==
    \A k \in Keys(tree) :
        LET rows == { i \in NewAudits(k) : db.audits[i].hash = HashOf(k) }
        IN /\ Cardinality(NewAudits(k)) <= 1
           /\ Has(k, "StateSet") => state[k] = HashOf(k)
           /\ Recognized(FileOf(k)) =>
                 /\ Has(k, "StateSet") => Cardinality(rows) = 1
                 /\ (Finished(k) /\ Cardinality(rows) = 1) => Has(k, "StateSet")
                 /\ (pc # "idle" /\ ~Has(k, "Audited")) => NewAudits(k) = {}
           /\ ~Recognized(FileOf(k)) =>
                 /\ NewAudits(k) = {}
                 /\ (Finished(k) /\ Has(k, "Dispatched")) => Has(k, "StateSet")

\* a run has audited one file and advanced its state entry, and has
\* advanced the entry of a file of no recognized type
StateFollowsAuditWitness ==
    \E k1, k2 \in Keys(tree) :
        /\ Recognized(FileOf(k1)) /\ Has(k1, "StateSet") /\ NewAudits(k1) # {}
        /\ ~Recognized(FileOf(k2)) /\ Has(k2, "StateSet")

\* C7 (as claimed): while a run is under way the state file equals its
\* content at the start of the run, and the run after a killed run skips
\* no file that the killed run had completed.
CrashReprocessesAll ==
    /\ pc # "idle" => disk = start.disk
    /\ prev.outcome = "killed" =>
          \A k \in prev.completed : ~Has(k, "Skipped")

\* C7 (amended): while a run is under way the state file equals its
\* content at the start of the run; the run after a killed run skips no
\* file that the killed run had completed, provided the killed run ran
\* without --force and the file was not edited in between.  (A file that a
\* killed --force run re-processed although its hash was recorded is
\* skipped by the next run.)
CrashReprocesses ==
    /\ pc # "idle" => disk = start.disk
    /\ (prev.outcome = "killed" /\ ~prev.force) =>
          \A k \in prev.completed \ edited : ~Has(k, "Skipped")

\* the run after a killed run dispatches a file the killed run completed
CrashReprocessesWitness ==
    /\ prev.outcome = "killed" /\ ~prev.force
    /\ \E k \in prev.completed \ edited : Has(k, "Dispatched") /\ Recognized(FileOf(k))

\* C8 (as claimed): after a run was killed with a file in flight, the
\* state file lacks the new hash of the in-flight file and holds the new
\* hash of every file the run had completed.
KilledRunKeepsCompleted ==
    (pc = "idle" /\ prev.outcome = "killed" /\ edited = {}) =>
        /\ \A k \in prev.inflight : ~prev.force => disk[k] # HashOf(k)
        /\ \A k \in prev.completed : disk[k] = HashOf(k)

\* C8 (amended): after a run was killed, the state file holds, for the
\* in-flight file and for every file the run had completed alike, the
\* entry it held when the run started; when the run ran without --force
\* that entry is not the file's new hash.
KilledRunKeepsNothing ==
    (pc = "idle" /\ prev.outcome = "killed" /\ edited = {}) =>
        \A k \in prev.inflight \cup prev.completed :
            /\ disk[k] = start.disk[k]
            /\ ~prev.force => disk[k] # HashOf(k)

\* a run was killed with one file in flight after it completed another
KilledRunKeepsNothingWitness ==
    /\ pc = "idle" /\ prev.outcome = "killed" /\ edited = {} /\ ~prev.force
    /\ prev.inflight # {}
    /\ \E k \in prev.completed : Recognized(FileOf(k))

\* C9 (as claimed): when the handling of a file failed, the run still
\* visits every file of the tree, and the state entries of the failed
\* files are as they were when the run started.
BadFileNeverHalts ==
    (RunOver /\ failed # {}) =>
        /\ \A k \in Keys(tree) : phases[k] # <<>> \/ k \in failed
        /\ \A k \in failed : state[k] = start.disk[k]

\* C10 (as claimed): when the handling of a file has failed, the store
\* holds what it held when the file was dispatched.
FailedFileLeavesNoRows ==
    pc = "except" => db = fdb

\* =====================================================================
\* The date normalizers on their own: one call (a raw date and a season
\* hint) is chosen, and each of the three normalizers is applied to it.
\* =====================================================================
driverVars == << tree, content, disk, db, pc, driver, force, runs, state, ri, fi, sha1, recs,
                 season_id, counts, bound, events, phases, failed, faulted, fdb, start, prev,
                 edited >>

\* no sync run is in progress
DriverIdle ==
    /\ tree = 1
    /\ content = [k \in Keys(tree) |-> 1]
    /\ disk = [k \in Keys(tree) |-> NoHash]
    /\ db = EmptyDb
    /\ pc = "idle" /\ driver = "enhanced" /\ force = FALSE /\ runs = 0
    /\ state = disk
    /\ ri = 0 /\ fi = 0 /\ sha1 = NoHash /\ recs = <<>> /\ season_id = NoId
    /\ counts = << 0, 0 >> /\ bound = FALSE /\ events = 0
    /\ phases = [k \in Keys(tree) |-> <<>>]
    /\ failed = {} /\ faulted = {}
    /\ fdb = EmptyDb
    /\ start = [disk |-> disk, db |-> db]
    /\ prev = NoPrev
    /\ edited = {}

MonthAbbr == << "Jan", "Feb", "Mar", "Apr", "May", "Jun", "Jul", "Aug", "Sep", "Oct", "Nov", "Dec" >>
Months == 1..12
Days == 1..31
SeasonYears == {2023, 2024}

\* a call: the raw text and the season hint, with the grammar the text is
\* written in and the season start year (or year), month and day it was
\* written from
DateCall(grammar, y, m, d, date_str, season_year) ==
    [op |-> "normalize_date", grammar |-> grammar, y |-> y, m |-> m, d |-> d,
     date_str |-> date_str, season_year |-> season_year]

\* '<Mon>/<day>' and '<weekday> <Mon>/<day>' under a season hint
SeasonalCalls ==
    { DateCall("seasonal", y, m, d, wd \o MonthAbbr[m] \o "/" \o Decimal(d), Decimal(y)) :
        y \in SeasonYears, m \in Months, d \in Days, wd \in {"", "Fri "} }

\* 'DD.MM.YYYY' and 'YYYY-MM-DD', zero-padded and not
DottedCalls ==
    { DateCall("dotted", y, m, d, fmt_d(d, w) \o "." \o fmt_d(m, w) \o "." \o Decimal(y), sy) :
        y \in SeasonYears, m \in {2, 8}, d \in {9, 11}, w \in {1, 2}, sy \in {"", "2023"} }
IsoCalls ==
    { DateCall("iso", y, m, d, Decimal(y) \o "-" \o fmt_d(m, w) \o "-" \o fmt_d(d, w), sy) :
        y \in SeasonYears, m \in {2, 8}, d \in {9, 11}, w \in {1, 2}, sy \in {"", "2023"} }

\* texts of no grammar, and texts of a grammar with a field out of range
OtherTexts ==
    {"", "   ", "TBD", "Aug", "Aug/", "/11", "Aug/11/2023", "Xyz Aug/11", "aug/11", "AUG/11",
     "Fri  Aug/11", "Sept/1", "Aug/0", "Aug/32", "Aug/011", "Aug/x", "Fri Sat Aug/11",
     "2023-13-45", "2023-02-30", "2023-08-11x", "2023-08", "31.02.2023", "11.08.23", "11/08/2023"}
OtherCalls == { DateCall("other", 0, 0, 0, t, sy) : t \in OtherTexts, sy \in {"", "2023", "abc"} }

DateCalls == SeasonalCalls \cup DottedCalls \cup IsoCalls \cup OtherCalls

\* a normalizer that has not been applied yet
NotCalled == [t |-> "pending", v |-> ""]

InitDate ==
    /\ DriverIdle
    /\ arg \in DateCalls
    /\ ret = [parser |-> NotCalled, enhanced |-> NotCalled, legacy |-> NotCalled]

CallNormalizeDate ==
    /\ arg.op = "normalize_date" /\ ret.parser = NotCalled
    /\ ret' = [ret EXCEPT !.parser = normalize_date(arg.date_str, arg.season_year)]
    /\ UNCHANGED << arg, driverVars >>

CallNormalizeDateEnhanced ==
    /\ arg.op = "normalize_date" /\ ret.enhanced = NotCalled
    /\ ret' = [ret EXCEPT !.enhanced = normalize_date_enhanced(arg.date_str, arg.season_year)]
    /\ UNCHANGED << arg, driverVars >>

CallNormalizeOpenfootballDate ==
    /\ arg.op = "normalize_date" /\ ret.legacy = NotCalled
    /\ ret' = [ret EXCEPT !.legacy = normalize_openfootball_date(arg.date_str, arg.season_year)]
    /\ UNCHANGED << arg, driverVars >>

NextDate == CallNormalizeDate \/ CallNormalizeDateEnhanced \/ CallNormalizeOpenfootballDate

SpecDate == InitDate /\ [][NextDate]_vars

\* ---------------------------------------------------------------------
\* Observations on a normalizer call
\* ---------------------------------------------------------------------
\* the date a season-relative text stands for: the season's first year from
\* July on, its second year before July
SeasonalYear == IF arg.m >= 7 THEN arg.y ELSE arg.y + 1
SeasonalDay == arg.grammar = "seasonal" /\ IsCalendarDate(SeasonalYear, arg.m, arg.d)
SeasonalText == Str(iso_format(SeasonalYear, arg.m, arg.d))

\* the date a text with its own year stands for
OwnYearDay == arg.grammar \in {"dotted", "iso"} /\ IsCalendarDate(arg.y, arg.m, arg.d)
OwnYearText == Str(iso_format(arg.y, arg.m, arg.d))

Returned(f) == ret[f] # NotCalled

\* a text of exactly the shape YYYY-MM-DD that names a day of the calendar
IsIsoDay(v) ==
    /\ Len(v) = 10
    /\ LET p == split_on(v, "-")
       IN Len(p) = 3 /\ Len(p[1]) = 4 /\ Len(p[2]) = 2 /\ Len(p[3]) = 2
          /\ AllDigits(p[1]) /\ AllDigits(p[2]) /\ AllDigits(p[3])
          /\ IsCalendarDate(IntAcc(p[1], 0), IntAcc(p[2], 0), IntAcc(p[3], 0))

\* C15: for every month abbreviation, every day that exists in the
\* resulting month and every season start year Y, each normalizer turns
\* '<Mon>/<day>' and '<weekday> <Mon>/<day>' into Y-mm-dd when the month is
\* July or later and into (Y+1)-mm-dd when it is before July.
SeasonRelativeDates ==
    (arg.op = "normalize_date" /\ SeasonalDay) =>
        \A f \in {"parser", "enhanced", "legacy"} : Returned(f) => ret[f] = SeasonalText

\* C16: a season-relative, a DD.MM.YYYY and a YYYY-MM-DD text each yield
\* the YYYY-MM-DD date they stand for, under the normalizer the fixture-text
\* parser calls and under the sync driver's; the two return the same result
\* on every input.
ThreeGrammarsBothNormalizers ==
    arg.op = "normalize_date" =>
        /\ \A f \in {"parser", "enhanced"} :
              /\ (Returned(f) /\ SeasonalDay) => ret[f] = SeasonalText
              /\ (Returned(f) /\ OwnYearDay) => ret[f] = OwnYearText
        /\ (Returned("parser") /\ Returned("enhanced")) => ret.parser = ret.enhanced

\* C17: whatever the text and the season hint, normalize_date does not
\* raise and returns None or a text YYYY-MM-DD that names an existing day.
NormalizeDateTotalAndSafe ==
    arg.op = "normalize_date" =>
        \A f \in {"parser", "enhanced"} :
            Returned(f) => (ret[f] = None \/ (ret[f].t = "str" /\ IsIsoDay(ret[f].v)))

\* =====================================================================
\* The validation gates on their own: one fixture record is chosen, both
\* gates are applied to it, and it is handed to one of the upsert engines
\* on an empty store.
\* =====================================================================
\* records as the CSV and text parsers can produce them, with and without
\* names, dates and scores
GateDates == {None, Str(""), Str("2023-08-11"), Str("2023-8-11"), Str("2023-02-30"), Str("TBD")}
GateScores == {NoScore, -2, 0, 20, 21}
GateRecords ==
    { FixtureRec(d, h, a, done, hs, as) :
        d \in GateDates, h \in {"", "Arsenal"}, a \in {"", "Chelsea"}, done \in BOOLEAN,
        hs \in GateScores, as \in {NoScore, 0, 21} }

InitValidate ==
    /\ DriverIdle
    /\ arg \in { [op |-> "validate_fixture", fixture |-> r] : r \in GateRecords }
    /\ ret = [parsers |-> "pending", legacy |-> "pending", engine |-> "none"]

Verdict(ok) == IF ok THEN "accepted" ELSE "rejected"

CallValidateFixture ==
    /\ arg.op = "validate_fixture" /\ ret.parsers = "pending"
    /\ ret' = [ret EXCEPT !.parsers = Verdict(validate_fixture(arg.fixture))]
    /\ UNCHANGED << arg, driverVars >>

CallValidateFixtureLegacy ==
    /\ arg.op = "validate_fixture" /\ ret.legacy = "pending"
    /\ ret' = [ret EXCEPT !.legacy = Verdict(validate_fixture_legacy(arg.fixture))]
    /\ UNCHANGED << arg, driverVars >>

\* parsers.fixture_parser.bulk_upsert_fixtures(db, [fixture])
UpsertGatedRecord ==
    /\ arg.op = "validate_fixture" /\ ret.engine = "none"
    /\ db' = bulk_upsert_fixtures(db, << arg.fixture >>, NoId, FALSE).db
    /\ ret' = [ret EXCEPT !.engine = "parsers"]
    /\ UNCHANGED << arg, tree, content, disk, pc, driver, force, runs, state, ri, fi, sha1, recs,
                    season_id, counts, bound, events, phases, failed, faulted, fdb, start, prev,
                    edited >>

\* sync_fixtures.py: [f for f in fixtures if validate_fixture(f)], then
\* bulk_upsert_fixtures(db, valid_fixtures)
UpsertGatedRecordLegacy ==
    /\ arg.op = "validate_fixture" /\ ret.engine = "none"
    /\ db' = bulk_upsert_fixtures_legacy(db, SelectSeq(<< arg.fixture >>, validate_fixture_legacy),
                                         NoId, FALSE).db
    /\ ret' = [ret EXCEPT !.engine = "legacy"]
    /\ UNCHANGED << arg, tree, content, disk, pc, driver, force, runs, state, ri, fi, sha1, recs,
                    season_id, counts, bound, events, phases, failed, faulted, fdb, start, prev,
                    edited >>

NextValidate ==
    \/ CallValidateFixture
    \/ CallValidateFixtureLegacy
    \/ UpsertGatedRecord
    \/ UpsertGatedRecordLegacy

SpecValidate == InitValidate /\ [][NextValidate]_vars

\* ---------------------------------------------------------------------
\* Observations on a gated record
\* ---------------------------------------------------------------------
LacksTeam(fx) == fx.home_team = "" \/ fx.away_team = ""
\* a date is given and is no YYYY-MM-DD day
UnparsableDate(fx) == fx.match_date # None /\ fx.match_date.v # "" /\ ~DateParses(fx.match_date)
SideInRange(n) == 0 <= n /\ n <= 20
BadScore(fx) ==
    fx.is_completed /\ (fx.home_score = NoScore \/ fx.away_score = NoScore
                        \/ ~SideInRange(fx.home_score) \/ ~SideInRange(fx.away_score))
ShouldReject(fx) == LacksTeam(fx) \/ UnparsableDate(fx) \/ BadScore(fx)

\* C12: validate_fixture rejects a record if and only if it lacks a home
\* or away team name, or has an unparsable date, or is completed and lacks
\* a score or has a side's score outside 0..20; an accepted record that is
\* not completed gets no MatchResult.
ValidationGate ==
    arg.op = "validate_fixture" =>
        /\ \A f \in {"parsers", "legacy"} :
              ret[f] # "pending" => (ret[f] = "rejected" <=> ShouldReject(arg.fixture))
        /\ (ret.engine # "none" /\ ~arg.fixture.is_completed) => db.results = <<>>

\* =====================================================================
\* Ingestion of fixture-text files on their own: each call takes one
\* file through the fixture-text branch of a driver (season, parser,
\* validation, upsert) against the store the previous calls left.
\* =====================================================================
MaxCalls == 2

TextFile(lines, season_year) == [lines |-> lines, season_year |-> season_year]

\* one scored match under a date header, the same match not yet played,
\* and the same match with another score
TextScored == TextFile(<< "[Fri Aug/11]", "15.00  Arsenal FC  2-1  Chelsea FC" >>, "2023")
TextUnscored == TextFile(<< "[Fri Aug/11]", "Arsenal FC v Chelsea FC" >>, "2023")
TextRescored == TextFile(<< "[Fri Aug/11]", "15.00  Arsenal FC  3-1  Chelsea FC" >>, "2023")
\* a header that is no date, a day that does not exist, a score out of
\* range, and a match dated after today
TextNoDate == TextFile(<< "[TBD]", "15.00  Arsenal FC  2-1  Chelsea FC" >>, "2023")
TextBadDay == TextFile(<< "[Sat Feb/30]", "15.00  Arsenal FC  2-1  Chelsea FC" >>, "2023")
TextExtreme == TextFile(<< "[Fri Aug/11]", "15.00  Arsenal FC  21-0  Chelsea FC" >>, "2023")
TextFuture == TextFile(<< "[2027-01-02]", "15.00  Arsenal FC  2-1  Chelsea FC" >>, "2023")

TextFiles == {TextScored, TextUnscored, TextRescored, TextNoDate, TextBadDay, TextExtreme,
              TextFuture}

\* the three ways a fixture-text file reaches a store: the branch of
\* enhanced_ingestion.sync_repo, the parser module's own pair of functions,
\* and the branch of sync_fixtures.sync_repo
IngestPaths == {"enhanced", "parsers", "legacy"}

\* the mapper file is absent: load_team_mapper returns {}
EmptyMapper == [n \in {} |-> n]

InitUpsert ==
    /\ DriverIdle
    /\ arg = [op |-> "ingest_text", path |-> "none", file |-> TextFile(<<>>, "")]
    /\ ret = [before |-> EmptyDb, fixtures |-> <<>>, added |-> 0, updated |-> 0, raised |-> FALSE]

IngestOutcome(before, fixtures, out, raised) ==
    [db |-> out.db,
     ret |-> [before |-> before, fixtures |-> fixtures, added |-> out.added,
              updated |-> out.updated, raised |-> raised]]

\* the fixture-text branch of a driver on one file of a repository, the
\* mapper loaded
ingest_text_of_repo(d, path, file, team_mapper, repo_name) ==
    LET Season(s) ==
            LET Parsed(fixtures) ==
                    IF path = "enhanced"
                    THEN IngestOutcome(d, fixtures, [db |-> s.db, added |-> 0, updated |-> 0], TRUE)
                    ELSE IF path = "parsers"
                    THEN IngestOutcome(d, fixtures,
                                       bulk_upsert_fixtures(s.db, fixtures, s.id, FALSE), FALSE)
                    ELSE IngestOutcome(d, fixtures,
                                       bulk_upsert_fixtures_legacy(s.db,
                                           SelectSeq(fixtures, validate_fixture_legacy), s.id, FALSE),
                                       FALSE)
            IN Parsed(IF path = "legacy"
                      THEN parse_openfootball_fixture_txt(file.lines, team_mapper, file.season_year)
                      ELSE parse_fixture_txt(file.lines, team_mapper, file.season_year))
    IN Season(get_or_create_season(d, file.season_year, repo_name))

ingest_with_mapper(d, path, file, team_mapper) ==
    ingest_text_of_repo(d, path, file, team_mapper, "eng-england")

\* the same with no mapper file
ingest_fixture_text(d, path, file) == ingest_with_mapper(d, path, file, EmptyMapper)

IngestFixtureText(path, file) ==
    /\ arg.op = "ingest_text" /\ pc = "idle" /\ runs < MaxCalls
    /\ runs' = runs + 1
    /\ arg' = [op |-> "ingest_text", path |-> path, file |-> file]
    /\ LET Done(o) == db' = o.db /\ ret' = o.ret
       IN Done(ingest_fixture_text(db, path, file))
    /\ UNCHANGED << tree, content, disk, pc, driver, force, state, ri, fi, sha1, recs,
                    season_id, counts, bound, events, phases, failed, faulted, fdb, start, prev,
                    edited >>

NextUpsert == \E path \in IngestPaths, file \in TextFiles : IngestFixtureText(path, file)

SpecUpsert == InitUpsert /\ [][NextUpsert]_vars

\* ---------------------------------------------------------------------
\* Observations on the store
\* ---------------------------------------------------------------------
ClubsNamed(d, name) == { c \in Rows(d.clubs) : c.name = name }
TeamsOfClub(d, club) == { t \in Rows(d.teams) : t.club_id = club.id }
ResultsOf(d, fx) == { r \in Rows(d.results) : r.fixture_id = fx.id }

\* the name a team id stands for: the name of the team's club
TeamName(d, team_id) ==
    LET cs == { c \in Rows(d.clubs) :
                  \E t \in Rows(d.teams) : t.id = team_id /\ t.club_id = c.id }
    IN IF cs = {} THEN "" ELSE (CHOOSE c \in cs : TRUE).name

\* the stored fixtures that are the logical fixture of a record: same date,
\* same home and away team
StoredAs(d, fx) ==
    { r \in Rows(d.fixtures) :
        /\ r.match_date.v = fx.match_date.v
        /\ TeamName(d, r.home_team_id) = fx.home_team
        /\ TeamName(d, r.away_team_id) = fx.away_team }

Ingested(file) == arg.op = "ingest_text" /\ arg.path # "none" /\ arg.file = file
LastRecords == { ret.fixtures[i] : i \in 1..Len(ret.fixtures) }

\* C11: ingesting the file with the header '[Fri Aug/11]' and the line
\* '15.00  Arsenal FC  2-1  Chelsea FC', season hint 2023, into a store
\* that knows neither team yields one Club and one Team per team name, one
\* Fixture dated 2023-08-11 and completed, and one MatchResult 2-1.
EndToEndIngestion ==
    (Ingested(TextScored) /\ ret.before.clubs = <<>> /\ ret.before.fixtures = <<>>) =>
        /\ \A n \in {"Arsenal FC", "Chelsea FC"} :
              /\ Cardinality(ClubsNamed(db, n)) = 1
              /\ \A c \in ClubsNamed(db, n) : Cardinality(TeamsOfClub(db, c)) = 1
        /\ Len(db.clubs) = 2 /\ Len(db.teams) = 2
        /\ Len(db.fixtures) = 1
        /\ \A fx \in Rows(db.fixtures) :
              /\ fx.match_date = Date("2023-08-11") /\ fx.is_completed
              /\ TeamName(db, fx.home_team_id) = "Arsenal FC"
              /\ TeamName(db, fx.away_team_id) = "Chelsea FC"
        /\ Len(db.results) = 1
        /\ \A r \in Rows(db.results) :
              /\ r.home_score = 2 /\ r.away_score = 1
              /\ \E fx \in Rows(db.fixtures) : r.fixture_id = fx.id

\* C13: a Fixture never has more than one MatchResult; when a stored
\* fixture that is not completed is ingested again as completed with a
\* score, it has exactly one MatchResult afterwards, carrying that score.
ResultNeverDuplicated ==
    arg.op = "ingest_text" =>
        /\ \A fx \in Rows(db.fixtures) : Cardinality(ResultsOf(db, fx)) <= 1
        /\ \A rec \in LastRecords :
              (rec.is_completed /\ validate_fixture(rec) /\ rec.match_date # None) =>
                  \A old \in StoredAs(ret.before, rec) :
                      ~old.is_completed =>
                          \E r \in Rows(db.results) :
                              /\ r.fixture_id = old.id
                              /\ r.home_score = rec.home_score /\ r.away_score = rec.away_score

\* C14: after any sequence of fixture upserts a Fixture has a MatchResult
\* row if and only if it is stored as completed.
ResultIffCompleted ==
    arg.op = "ingest_text" =>
        \A fx \in Rows(db.fixtures) : (ResultsOf(db, fx) # {}) <=> fx.is_completed

\* C18: a record whose raw date could not be normalized (match_date is
\* None) is still stored, as a Fixture row without a date.
NullDateStillStored ==
    (arg.op = "ingest_text" /\ arg.path # "none") =>
        \A rec \in LastRecords :
            (rec.match_date = None /\ rec.home_team # "" /\ rec.away_team # "") =>
                \E i \in (Len(ret.before.fixtures) + 1)..Len(db.fixtures) :
                    /\ db.fixtures[i].match_date = None
                    /\ TeamName(db, db.fixtures[i].home_team_id) = rec.home_team
                    /\ TeamName(db, db.fixtures[i].away_team_id) = rec.away_team

\* =====================================================================
\* The team mapper: scripts/team_mapper_builder.py builds the dictionary
\* variant name -> canonical name that the fixture parsers look names up in
\* =====================================================================
UpperChar(c) ==
    CASE c = "a" -> "A" [] c = "b" -> "B" [] c = "c" -> "C" [] c = "d" -> "D" [] c = "e" -> "E"
      [] c = "f" -> "F" [] c = "g" -> "G" [] c = "h" -> "H" [] c = "i" -> "I" [] c = "j" -> "J"
      [] c = "k" -> "K" [] c = "l" -> "L" [] c = "m" -> "M" [] c = "n" -> "N" [] c = "o" -> "O"
      [] c = "p" -> "P" [] c = "q" -> "Q" [] c = "r" -> "R" [] c = "s" -> "S" [] c = "t" -> "T"
      [] c = "u" -> "U" [] c = "v" -> "V" [] c = "w" -> "W" [] c = "x" -> "X" [] c = "y" -> "Y"
      [] c = "z" -> "Z" [] OTHER -> c

\* str.title(): a letter after a non-letter in upper case, the others in
\* lower case
RECURSIVE TitleAcc(_, _)
TitleAcc(s, after_letter) ==
    IF s = "" THEN ""
    ELSE (IF after_letter THEN LowerChar(Head(s)) ELSE UpperChar(Head(s)))
         \o TitleAcc(Tail(s), LowerChar(Head(s)) \in Letters)
title(s) == TitleAcc(s, FALSE)

\* s.replace(a, b) for single characters
RECURSIVE replace_char(_, _, _)
replace_char(s, a, b) ==
    IF s = "" THEN ""
    ELSE (IF Head(s) = a THEN b ELSE Head(s)) \o replace_char(Tail(s), a, b)

\* re.sub(r'[\'\.&\-]', ' ', name)
RECURSIVE blank_punctuation(_)
blank_punctuation(s) ==
    IF s = "" THEN ""
    ELSE (IF Head(s) = "'" \/ Head(s) = "." \/ Head(s) = "&" \/ Head(s) = "-" THEN " "
          ELSE Head(s))
         \o blank_punctuation(Tail(s))

\* the suffix patterns in the order they are applied; a '.' in one of them
\* is the pattern's any-character
Suffixes ==
    << "fc", "f.c.", "f.c", "afc", "a.f.c", "a.f.c.", "united", "utd", "city", "football club",
       "association football club", "1899", "1900", "1901", "1902", "1903", "1904", "1905",
       "1906", "1907", "1908", "1909", "1910", "1911", "1912", "1913", "1914", "1915", "04",
       "05", "06", "07", "08", "09" >>

CharAt(s, i) == SubSeq(s, i, i)

\* \b between the characters i and i + 1 of s
WordBoundary(s, i) ==
    (i >= 1 /\ i <= Len(s) /\ IsWordChar(CharAt(s, i)))
      # (i + 1 <= Len(s) /\ IsWordChar(CharAt(s, i + 1)))

\* r'\b{suffix}\b' matches s from the character i on
suffix_at(s, suffix, i) ==
    /\ i + Len(suffix) - 1 <= Len(s)
    /\ \A k \in 1..Len(suffix) :
          CharAt(suffix, k) = "." \/ CharAt(suffix, k) = CharAt(s, i + k - 1)
    /\ WordBoundary(s, i - 1)
    /\ WordBoundary(s, i + Len(suffix) - 1)

\* re.sub(r'\b{suffix}\b', '', s): the matches from left to right, none
\* overlapping another
RECURSIVE cut_suffix(_, _, _)
cut_suffix(s, suffix, i) ==
    IF i > Len(s) THEN ""
    ELSE IF suffix_at(s, suffix, i) THEN cut_suffix(s, suffix, i + Len(suffix))
    ELSE CharAt(s, i) \o cut_suffix(s, suffix, i + 1)

RECURSIVE cut_suffixes(_, _)
cut_suffixes(s, k) ==
    IF s = "" \/ k > Len(Suffixes) THEN s
    ELSE cut_suffixes(cut_suffix(s, Suffixes[k], 1), k + 1)

\* normalize_team_name
normalize_team_name(name) ==
    LET Kept(w) == JoinWords(w, 1, Len(w))
    IN IF name = "" THEN ""
       ELSE Kept(split(cut_suffixes(blank_punctuation(Lower(name)), 1)))

\* [p.strip() for p in line.split(sep)]
RECURSIVE strip_all(_, _)
strip_all(p, i) == IF i > Len(p) THEN <<>> ELSE << strip(p[i]) >> \o strip_all(p, i + 1)

NonEmpty(s) == s # ""

\* a dict in insertion order is the sequence of its items [key, value];
\* d[key] = value keeps the place of a key that is present
dict_has(d, k) == \E i \in 1..Len(d) : d[i].key = k
dict_get(d, k) == (CHOOSE e \in Rows(d) : e.key = k).value
dict_set(d, k, v) ==
    IF dict_has(d, k)
    THEN [i \in 1..Len(d) |-> IF d[i].key = k THEN [key |-> k, value |-> v] ELSE d[i]]
    ELSE Append(d, [key |-> k, value |-> v])

\* the loop body of extract_alternative_names_from_club_file; st holds
\* main_name and alt_names
club_file_line(st, raw, i) ==
    LET Line(line) ==
            IF line = "" \/ Head(line) = "=" \/ Head(line) = "#" THEN st
            ELSE IF i = 0 \/ Head(line) # "|"
            THEN [st EXCEPT !.main_name = strip_all(split_on(line, ","), 1)[1]]
            ELSE LET AltLine(alt_line) ==
                         IF alt_line = "" THEN st
                         ELSE [st EXCEPT !.alt_names =
                                 @ \o SelectSeq(strip_all(split_on(alt_line, "|"), 1), NonEmpty)]
                 IN AltLine(strip(split_on(strip(Tail(line)), "#")[1]))
    IN Line(strip(raw))

RECURSIVE club_file_lines(_, _, _)
club_file_lines(st, lines, i) ==
    IF i >= Len(lines) THEN st
    ELSE club_file_lines(club_file_line(st, lines[i + 1], i), lines, i + 1)

\* extract_alternative_names_from_club_file: one (main_name, alt_names)
\* for the whole file
extract_alternative_names_from_club_file(basename, lines) ==
    club_file_lines([main_name |-> title(replace_char(basename, "_", " ")), alt_names |-> <<>>],
                    lines, 0)

\* team_map[main_name].extend(alt_names), or a new entry
team_map_merge(team_map, main_name, alt_names) ==
    IF main_name = "" THEN team_map
    ELSE IF dict_has(team_map, main_name)
    THEN dict_set(team_map, main_name, dict_get(team_map, main_name) \o alt_names)
    ELSE dict_set(team_map, main_name, alt_names)

\* extract_alternative_names_from_json and the merge of its results
RECURSIVE merge_json_clubs(_, _, _)
merge_json_clubs(team_map, clubs, i) ==
    IF i > Len(clubs) THEN team_map
    ELSE merge_json_clubs(team_map_merge(team_map, clubs[i].name, clubs[i].alt_names), clubs, i + 1)

\* extract_teams_from_fixture_file: the names of the match lines
RECURSIVE fixture_file_teams(_, _)
fixture_file_teams(lines, i) ==
    IF i > Len(lines) THEN {}
    ELSE LET Names(m) == IF m.ok THEN {m.home_team, m.away_team} ELSE {}
             Line(line) ==
                 IF SkippedLine(line) \/ StartsWith(line, "Matchday") \/ date_header(line) # ""
                 THEN {}
                 ELSE IF match_line(line).ok THEN Names(match_line(line))
                 ELSE Names(alt_match_line(line))
         IN Line(strip(lines[i])) \cup fixture_file_teams(lines, i + 1)

\* the part of scan_directory_for_team_names inside os.walk: club files
\* feed team_map, squad and fixture files the two sets of names
ScanState(team_map, squad_names, fixture_teams) ==
    [team_map |-> team_map, squad_names |-> squad_names, fixture_teams |-> fixture_teams]

\* sub in s, s.endswith(sub) and os.path.splitext(file)[0]
RECURSIVE in_str(_, _)
in_str(sub, s) == StartsWith(s, sub) \/ (s # "" /\ in_str(sub, Tail(s)))
endswith(s, sub) == Len(s) >= Len(sub) /\ SubSeq(s, Len(s) - Len(sub) + 1, Len(s)) = sub
splitext(file) ==
    LET Dot(i) == IF i <= 1 THEN file ELSE SubSeq(file, 1, i - 1)
    IN Dot(LastIndexOf(file, ".", Len(file)))

\* the body of the os.walk loop: a file is classified by its name and its
\* directory; f.lines is the text of the file and f.clubs the list a club
\* JSON file holds
scan_file(st, f) ==
    LET clubs_dir == in_str("clubs", Lower(f.root))
        squads_dir == in_str("squads", Lower(f.root))
        club_file == in_str("club", Lower(f.file))
        fixture_file ==
            endswith(f.file, ".txt") /\ ~squads_dir /\ ~clubs_dir /\ ~club_file
        Club(e) == [st EXCEPT !.team_map = team_map_merge(@, e.main_name, e.alt_names)]
    IN IF club_file /\ endswith(f.file, ".txt")
       THEN Club(extract_alternative_names_from_club_file(splitext(f.file), f.lines))
       ELSE IF club_file /\ endswith(f.file, ".json")
       THEN [st EXCEPT !.team_map = merge_json_clubs(@, f.clubs, 1)]
       ELSE IF squads_dir /\ endswith(f.file, ".txt")
       THEN [st EXCEPT !.squad_names = @ \cup {title(replace_char(splitext(f.file), "_", " "))}]
       ELSE IF fixture_file
       THEN [st EXCEPT !.fixture_teams = @ \cup fixture_file_teams(f.lines, 1)]
       ELSE st

RECURSIVE scan_files(_, _, _)
scan_files(st, files, i) ==
    IF i > Len(files) THEN st ELSE scan_files(scan_file(st, files[i]), files, i + 1)

\* for name in names: if name not in team_map: team_map[name] = []
\* (names is a set; `order` is the order its iteration yields)
RECURSIVE add_main_names(_, _, _)
add_main_names(team_map, order, i) ==
    IF i > Len(order) THEN team_map
    ELSE add_main_names(IF dict_has(team_map, order[i]) THEN team_map
                        ELSE dict_set(team_map, order[i], <<>>),
                        order, i + 1)

\* the orders in which a set can be iterated
Orders(S) == { o \in [1..Cardinality(S) -> S] : \A i, j \in 1..Cardinality(S) : o[i] = o[j] => i = j }

\* the os.walk part of scan_directory_for_team_names
walk(files) == scan_files(ScanState(<<>>, {}, {}), files, 1)

\* scan_directory_for_team_names
scan_directory_for_team_names(files, squad_order, fixture_order) ==
    add_main_names(add_main_names(walk(files).team_map, squad_order, 1), fixture_order, 1)

\* team_map[main_name] = list(set(team_map[main_name])) of main (the order
\* inside one list decides nothing: all its names go to the same main name)
RECURSIVE unique(_, _)
unique(l, i) ==
    IF i > Len(l) THEN <<>>
    ELSE (IF \E j \in 1..(i - 1) : l[j] = l[i] THEN <<>> ELSE << l[i] >>) \o unique(l, i + 1)
remove_duplicates(team_map) ==
    [i \in 1..Len(team_map) |-> [key |-> team_map[i].key, value |-> unique(team_map[i].value, 1)]]

\* the inner loop of build_normalized_team_map
RECURSIVE add_alt_names(_, _, _, _)
add_alt_names(normalized_map, main_name, alt_names, i) ==
    IF i > Len(alt_names) THEN normalized_map
    ELSE add_alt_names(
            dict_set(dict_set(normalized_map, alt_names[i], main_name),
                     normalize_team_name(alt_names[i]), main_name),
            main_name, alt_names, i + 1)

\* build_normalized_team_map
RECURSIVE build_normalized_team_map(_, _, _)
build_normalized_team_map(normalized_map, team_map, i) ==
    IF i > Len(team_map) THEN normalized_map
    ELSE build_normalized_team_map(
            add_alt_names(
                dict_set(dict_set(normalized_map, team_map[i].key, team_map[i].key),
                         normalize_team_name(team_map[i].key), team_map[i].key),
                team_map[i].key, team_map[i].value, 1),
            team_map, i + 1)

\* json.dump of the mapper and json.load by the drivers: the dictionary
\* the parsers receive
as_mapper(d) == [k \in { e.key : e \in Rows(d) } |-> dict_get(d, k)]

\* ---------------------------------------------------------------------
\* The mapper build on its own: main of team_mapper_builder.py scans a
\* data directory and builds the mapper, and a driver then ingests one
\* fixture-text file with the mapper loaded
\* ---------------------------------------------------------------------
ClubDecl(name, alt_names) == [name |-> name, alt_names |-> alt_names]

\* a club record as a club text file writes it: the header line and the
\* line of its alternative names
RECURSIVE AltNamesText(_, _)
AltNamesText(alt_names, i) ==
    IF i > Len(alt_names) THEN "" ELSE " | " \o alt_names[i] \o AltNamesText(alt_names, i + 1)
RECURSIVE ClubLines(_, _)
ClubLines(clubs, i) ==
    IF i > Len(clubs) THEN <<>>
    ELSE << clubs[i].name \o ", 1886, @ Stadium, London" >>
         \o (IF clubs[i].alt_names = <<>> THEN <<>>
             ELSE << " " \o AltNamesText(clubs[i].alt_names, 1) >>)
         \o ClubLines(clubs, i + 1)

ScannedFile(root, file, lines, clubs) ==
    [root |-> root, file |-> file, lines |-> lines, clubs |-> clubs]
ClubTxt(file, clubs) ==
    ScannedFile("england/2023-24", file, << "= England =", "" >> \o ClubLines(clubs, 1), clubs)
ClubJson(clubs) == ScannedFile("england/2023-24", "clubs.json", <<>>, clubs)
SquadTxt(file) == ScannedFile("england/2023-24/squads", file, <<>>, <<>>)
FixtureTxt(lines) == ScannedFile("england/2023-24", "1-premierleague.txt", lines, <<>>)

Arsenal == ClubDecl("Arsenal", << "The Gunners" >>)
ArsenalFull == ClubDecl("Arsenal", << "Arsenal FC", "The Gunners" >>)
Chelsea == ClubDecl("Chelsea", << "The Blues" >>)
\* a club record that gives another record's name as its alternative name
ArsenalFC == ClubDecl("Arsenal FC", << "Arsenal" >>)
ChelseaFull == ClubDecl("Chelsea", << "Chelsea FC", "The Blues" >>)

\* the directories scanned, each the files in the order os.walk yields them
ScanTrees ==
    { << ClubTxt("arsenal_club.txt", << ArsenalFull >>) >>,
      << ClubTxt("arsenal_club.txt", << Arsenal >>), ClubTxt("chelsea_club.txt", << Chelsea >>) >>,
      << ClubTxt("eng.clubs.txt", << Arsenal, Chelsea >>) >>,
      << ClubJson(<< Arsenal, Chelsea >>) >>,
      << ClubJson(<< ArsenalFull, ChelseaFull >>),
         FixtureTxt(<< "[Fri Aug/11]", "15.00  Arsenal FC  2-1  Chelsea FC" >>) >>,
      << ClubTxt("chelsea_club.txt", << Chelsea >>), SquadTxt("the_blues.txt") >>,
      << ClubTxt("arsenal_club.txt", << Arsenal >>), ClubJson(<< ArsenalFull, Chelsea >>) >>,
      << ClubJson(<< Chelsea >>), SquadTxt("chelsea.txt"),
         FixtureTxt(<< "[Fri Aug/11]", "Chelsea FC  2-1  Everton" >>) >>,
      << ClubJson(<< Arsenal >>), SquadTxt("arsenal_fc.txt"),
         FixtureTxt(<< "Matchday 1", "[Fri Aug/11]", "Arsenal v Everton" >>) >>,
      << ClubJson(<< Arsenal, ArsenalFC >>) >> }

\* a fixture-text file with one line naming `name` and one naming `variant`
VariantFile(name, variant) ==
    TextFile(<< "[Fri Aug/11]", "15.00  " \o name \o "  2-1  Everton", "[Sat Aug/19]",
                "15.00  " \o variant \o "  0-0  Everton" >>, "2023")
\* the variant of a canonical name with the suffix 'FC'
WithFC(name) == name \o " FC"
VariantFiles ==
    { VariantFile(alt, WithFC(c.name)) :
        alt \in {"The Gunners", "The Blues"}, c \in {Arsenal, Chelsea} }

InitMapper ==
    /\ DriverIdle
    /\ arg = [op |-> "build_mapper", files |-> <<>>, path |-> "none", file |-> TextFile(<<>>, "")]
    /\ ret = [step |-> "start", team_map |-> <<>>, normalized_map |-> <<>>, fixtures |-> <<>>]

\* main up to the scan: the two sets of names are iterated in some order
ScanDirectory(files, squad_order, fixture_order) ==
    /\ arg.op = "build_mapper" /\ ret.step = "start"
    /\ squad_order \in Orders(walk(files).squad_names)
    /\ fixture_order \in Orders(walk(files).fixture_teams)
    /\ arg' = [arg EXCEPT !.files = files]
    /\ ret' = [ret EXCEPT !.step = "scanned",
                          !.team_map = scan_directory_for_team_names(files, squad_order,
                                                                     fixture_order)]
    /\ UNCHANGED driverVars

\* the rest of main: duplicates removed, the map built and saved
BuildMapper ==
    /\ arg.op = "build_mapper" /\ ret.step = "scanned"
    /\ ret' = [ret EXCEPT !.step = "built",
                          !.normalized_map =
                              build_normalized_team_map(<<>>, remove_duplicates(ret.team_map), 1)]
    /\ UNCHANGED << arg, driverVars >>

\* a driver loads the mapper and ingests one fixture-text file
IngestWithMapper(path, file) ==
    /\ arg.op = "build_mapper" /\ ret.step = "built" /\ pc = "idle"
    /\ arg' = [arg EXCEPT !.path = path, !.file = file]
    /\ LET Done(o) ==
               /\ db' = o.db
               /\ ret' = [ret EXCEPT !.step = "ingested", !.fixtures = o.ret.fixtures]
       IN Done(ingest_with_mapper(db, path, file, as_mapper(ret.normalized_map)))
    /\ UNCHANGED << tree, content, disk, pc, driver, force, runs, state, ri, fi, sha1, recs,
                    season_id, counts, bound, events, phases, failed, faulted, fdb, start, prev,
                    edited >>

NextMapper ==
    \/ \E files \in ScanTrees :
         \E squad_order \in Orders(walk(files).squad_names),
            fixture_order \in Orders(walk(files).fixture_teams) :
           ScanDirectory(files, squad_order, fixture_order)
    \/ BuildMapper
    \/ \E path \in IngestPaths, file \in VariantFiles : IngestWithMapper(path, file)

SpecMapper == InitMapper /\ [][NextMapper]_vars

\* the club records of the scanned club files, and the name the built map
\* gives
DeclaredClubs == UNION { Rows(arg.files[i].clubs) : i \in 1..Len(arg.files) }
MapperBuilt == arg.op = "build_mapper" /\ ret.step \in {"built", "ingested"}
Mapping(name) ==
    IF dict_has(ret.normalized_map, name) THEN dict_get(ret.normalized_map, name) ELSE ""

\* C19: after the mapper build, every alternative name that a scanned club
\* text or JSON file declares for a club is mapped to that club's own name,
\* whatever squad and fixture files were scanned in the same build
AlternativeNamesOwnClub ==
    MapperBuilt =>
        \A c \in DeclaredClubs : \A a \in Rows(c.alt_names) : Mapping(a) = c.name

\* the club a stored fixture's home team belongs to
HomeClubs == { t.club_id : t \in { t \in Rows(db.teams) :
                                      \E r \in Rows(db.fixtures) : r.home_team_id = t.id } }

\* C20: when a club file declares the alternative name A for the club C, a
\* fixture line naming A and a fixture line naming 'C FC' resolve through
\* the mapper lookup of the parsers to the same name, and the fixtures
\* stored from them have the same Club row at home
VariantsResolveAlike ==
    (arg.op = "build_mapper" /\ ret.step = "ingested") =>
        \A c \in DeclaredClubs : \A a \in Rows(c.alt_names) :
            arg.file = VariantFile(a, WithFC(c.name)) =>
                /\ Len(ret.fixtures) = 2
                /\ ret.fixtures[1].home_team = ret.fixtures[2].home_team
                /\ Cardinality(HomeClubs) <= 1

\* =====================================================================
\* The dispatch of one file on its own: sync_repo classifies a file by
\* its directory and its name and runs the branch of its route
\* =====================================================================
\* root.split(os.sep) and any(sub in part.lower() for part in ...)
any_part_has(root, sub) ==
    \E i \in 1..Len(split_on(root, "/")) : in_str(sub, Lower(split_on(root, "/")[i]))

\* re.match(r'\d{4}-\d{2}', part)
is_season_part(part) ==
    /\ Len(part) >= 7
    /\ AllDigits(SubSeq(part, 1, 4))
    /\ SubSeq(part, 5, 5) = "-"
    /\ AllDigits(SubSeq(part, 6, 7))

\* extract_season_year on the parts of a path: part[:4] of the first
\* season directory, "" for None
RECURSIVE season_year_of(_, _)
season_year_of(parts, i) ==
    IF i > Len(parts) THEN ""
    ELSE IF is_season_part(parts[i]) THEN SubSeq(parts[i], 1, 4)
    ELSE season_year_of(parts, i + 1)

\* file.endswith('.json') / '.txt' / '.csv'
ext_of(file) ==
    CASE endswith(file, ".json") -> "json"
      [] endswith(file, ".txt") -> "txt"
      [] endswith(file, ".csv") -> "csv"
      [] OTHER -> "other"

\* the file `file` of the directory `dir` of a repository, as the drivers
\* see it (root is the path down to the directory, the repository included)
FileOfPath(repo, dir, file) ==
    File(repo, dir \o "/" \o file, any_part_has(repo \o "/" \o dir, "squads"),
         any_part_has(repo \o "/" \o dir, "clubs"), in_str("club", Lower(file)), ext_of(file),
         season_year_of(split_on(repo \o "/" \o dir \o "/" \o file, "/"), 1), FALSE)

\* the try block of sync_repo on one file of content b: the branch of the
\* route, the audit row; the enhanced driver stops at the upsert call
process_file(d, drv, f, b) ==
    LET Audited(out) ==
            log_audit(out.db, f.repo, state_key(f), out.added, out.updated, sha1_hex(b))
        Season(gs) ==
            IF drv = "enhanced" THEN gs.db
            ELSE Audited(LegacyUpsert(f, gs.db, ParsedRecords(f, b), gs.id, FALSE))
    IN IF ~Recognized(f) THEN d
       ELSE IF IsFixtureRoute(f)
       THEN Season(get_or_create_season(d, extract_season_year(f), f.repo))
       ELSE Season([db |-> d, id |-> NoId])

RouteRepos == {"eng-england", "clubs"}
RouteDirs == {"2023-24", "europe/Clubs", "2023-24/squads", "docs"}
RouteFiles ==
    {"1-premierleague.txt", "eng.clubs.txt", "clubs.json", "arsenal.txt", "arsenal.json",
     "1-liga.csv", "clubs.csv", "README.md", "Club_notes.md", "fixtures.txt.bak"}
RoutedFiles == { FileOfPath(r, d, n) : r \in RouteRepos, d \in RouteDirs, n \in RouteFiles }

InitRoute ==
    /\ DriverIdle
    /\ arg = [op |-> "dispatch", driver |-> "none", file |-> FileOfPath("", "", "")]
    /\ ret = [route |-> "none"]

\* one file goes through the loop body of sync_repo
DispatchFile(drv, f) ==
    /\ arg.op = "dispatch" /\ arg.driver = "none" /\ pc = "idle"
    /\ arg' = [op |-> "dispatch", driver |-> drv, file |-> f]
    /\ ret' = [route |-> Route(f)]
    /\ db' = process_file(db, drv, f, 1)
    /\ UNCHANGED << tree, content, disk, pc, driver, force, runs, state, ri, fi, sha1, recs,
                    season_id, counts, bound, events, phases, failed, faulted, fdb, start, prev,
                    edited >>

NextRoute == \E drv \in Drivers, f \in RoutedFiles : DispatchFile(drv, f)

SpecRoute == InitRoute /\ [][NextRoute]_vars

Dispatched == arg.op = "dispatch" /\ arg.driver # "none"

\* the route the rule gives a file, its clauses in the order stated
RuleRoute(f) ==
    IF (in_clubs_dir(f) \/ is_club_file(f)) /\ f.ext = "json" THEN "club_json"
    ELSE IF (in_clubs_dir(f) \/ is_club_file(f)) /\ f.ext = "txt" THEN "club_txt"
    ELSE IF in_squads_dir(f) THEN "squad_txt"
    ELSE IF f.ext = "csv" THEN "fixture_csv"
    ELSE IF f.ext = "txt" /\ ~in_clubs_dir(f) THEN "fixture_txt"
    ELSE "unknown"

\* C21: every file gets the route the dispatch rule names for its name and
\* path (club parser under a 'clubs' directory or for a 'club' name, squad
\* parser under 'squads', CSV parser for '.csv', fixture-text parser for
\* any other '.txt'), and a file left without a route writes nothing
DispatchRule ==
    Dispatched =>
        /\ ret.route = RuleRoute(arg.file)
        /\ (ret.route = "unknown" => db = EmptyDb)

\* =====================================================================
\* Fixture CSV files: csv.DictReader rows and the two CSV parsers
\* =====================================================================
\* the index of the column `name` in the header, 0 when there is none
\* (of two columns with one name the last counts)
column(header, name) ==
    LET at == { i \in 1..Len(header) : header[i] = name }
    IN IF at = {} THEN 0 ELSE CHOOSE i \in at : \A j \in at : j <= i

\* row.get(name): the cell, None for a row that is too short or a column
\* that does not exist
row_get(header, row, name) ==
    IF column(header, name) = 0 \/ column(header, name) > Len(row) THEN None
    ELSE Str(row[column(header, name)])

\* row[name] raises KeyError
row_missing(header, name) == column(header, name) = 0

text_of(cell) == IF cell = None THEN "" ELSE cell.v

\* parse_fixture_csv, the score of a row: what int() does not accept is
\* passed over, and a home score set before the failure is kept
csv_score(cell) ==
    LET Parts(score_parts) ==
            IF int(score_parts[1]) = Raised THEN [home |-> NoScore, away |-> NoScore]
            ELSE IF Len(score_parts) < 2 \/ int(score_parts[2]) = Raised
            THEN [home |-> int(score_parts[1]), away |-> NoScore]
            ELSE [home |-> int(score_parts[1]), away |-> int(score_parts[2])]
    IN IF text_of(cell) = "" THEN [home |-> NoScore, away |-> NoScore]
       ELSE Parts(split_on(cell.v, "-"))

\* parsers.fixture_parser.parse_fixture_csv: one row
csv_fixture(header, row, team_mapper) ==
    LET Scored(s) ==
            [match_date |-> row_get(header, row, "date"),
             home_team |-> mapper_get(team_mapper, text_of(row_get(header, row, "home_team"))),
             away_team |-> mapper_get(team_mapper, text_of(row_get(header, row, "away_team"))),
             stage |-> text_of(row_get(header, row, "stage")),
             venue |-> text_of(row_get(header, row, "venue")),
             is_completed |-> s.home # NoScore /\ s.away # NoScore,
             home_score |-> s.home, away_score |-> s.away]
    IN Scored(csv_score(row_get(header, row, "score")))

\* csv.DictReader skips the lines that hold nothing
RECURSIVE csv_rows(_, _)
csv_rows(lines, i) ==
    IF i > Len(lines) THEN <<>>
    ELSE (IF lines[i] = "" THEN <<>> ELSE << split_on(lines[i], ",") >>) \o csv_rows(lines, i + 1)

RECURSIVE csv_fixtures(_, _, _, _)
csv_fixtures(header, rows, i, team_mapper) ==
    IF i > Len(rows) THEN <<>>
    ELSE << csv_fixture(header, rows[i], team_mapper) >>
         \o csv_fixtures(header, rows, i + 1, team_mapper)

parse_fixture_csv(lines, team_mapper) ==
    LET Rows_(rows) ==
            IF rows = <<>> THEN <<>> ELSE csv_fixtures(rows[1], Tail(rows), 1, team_mapper)
    IN Rows_(csv_rows(lines, 1))

\* sync_fixtures.parse_openfootball_csv, one row: int() of the two sides
\* of the score with nothing to catch what it raises
openfootball_csv_raises(header, row) ==
    LET Score(score) ==
            /\ text_of(score) # ""
            /\ \/ int(split_on(score.v, "-")[1]) = Raised
               \/ Len(split_on(score.v, "-")) < 2
               \/ int(split_on(score.v, "-")[2]) = Raised
    IN \/ row_missing(header, "home_team") \/ row_missing(header, "away_team")
       \/ Score(row_get(header, row, "score"))

openfootball_csv_fixture(header, row, team_mapper) ==
    LET Scored(score) ==
            [match_date |-> row_get(header, row, "date"),
             home_team |-> mapper_get(team_mapper, text_of(row_get(header, row, "home_team"))),
             away_team |-> mapper_get(team_mapper, text_of(row_get(header, row, "away_team"))),
             stage |-> text_of(row_get(header, row, "stage")),
             venue |-> text_of(row_get(header, row, "venue")),
             is_completed |-> score # None,
             home_score |-> IF text_of(score) = "" THEN NoScore
                            ELSE int(split_on(score.v, "-")[1]),
             away_score |-> IF text_of(score) = "" THEN NoScore
                            ELSE int(split_on(score.v, "-")[2])]
    IN Scored(row_get(header, row, "score"))

\* the rows in order; the first row that raises ends the call
RECURSIVE openfootball_csv_fixtures(_, _, _, _, _)
openfootball_csv_fixtures(header, rows, i, team_mapper, out) ==
    IF i > Len(rows) THEN [raised |-> FALSE, fixtures |-> out]
    ELSE IF openfootball_csv_raises(header, rows[i]) THEN [raised |-> TRUE, fixtures |-> <<>>]
    ELSE openfootball_csv_fixtures(header, rows, i + 1, team_mapper,
                                   Append(out, openfootball_csv_fixture(header, rows[i],
                                                                        team_mapper)))

parse_openfootball_csv(lines, team_mapper) ==
    LET Rows_(rows) ==
            IF rows = <<>> THEN [raised |-> FALSE, fixtures |-> <<>>]
            ELSE openfootball_csv_fixtures(rows[1], Tail(rows), 1, team_mapper, <<>>)
    IN Rows_(csv_rows(lines, 1))

\* the CSV branch of a driver on one file of a repository
ingest_csv_of_repo(d, path, file, repo_name) ==
    LET Season(s) ==
            LET Legacy(p) ==
                    IF p.raised
                    THEN IngestOutcome(d, <<>>, [db |-> s.db, added |-> 0, updated |-> 0], TRUE)
                    ELSE IngestOutcome(d, p.fixtures,
                                       bulk_upsert_fixtures_legacy(s.db,
                                           SelectSeq(p.fixtures, validate_fixture_legacy), s.id,
                                           FALSE),
                                       FALSE)
                Parsed(fixtures) ==
                    IF path = "enhanced"
                    THEN IngestOutcome(d, fixtures, [db |-> s.db, added |-> 0, updated |-> 0], TRUE)
                    ELSE IngestOutcome(d, fixtures,
                                       bulk_upsert_fixtures(s.db, fixtures, s.id, FALSE), FALSE)
            IN IF path = "legacy" THEN Legacy(parse_openfootball_csv(file.lines, EmptyMapper))
               ELSE Parsed(parse_fixture_csv(file.lines, EmptyMapper))
    IN Season(get_or_create_season(d, file.season_year, repo_name))

ingest_fixture_csv(d, path, file) == ingest_csv_of_repo(d, path, file, "eng-england")

\* ---------------------------------------------------------------------
\* One malformed line in a fixture file: a file of well-formed lines with
\* one other line put in, ingested by a driver
\* ---------------------------------------------------------------------
InsertAt(lines, i, line) == SubSeq(lines, 1, i) \o << line >> \o SubSeq(lines, i + 1, Len(lines))

CsvGood ==
    << "date,home_team,away_team,score", "2023-08-11,Arsenal,Chelsea,2-1",
       "2023-08-12,Chelsea,Everton,0-0" >>
CsvBad ==
    {"2023-08-13,Arsenal,Everton,x-1", "2023-08-13,Arsenal,Everton,2-x",
     "2023-08-13,Arsenal,Everton,2", "2023-08-13,Arsenal,Everton,two-one", "2023-08-13,Arsenal",
     "garbage"}
TxtGood ==
    << "[Fri Aug/11]", "15.00  Arsenal  2-1  Chelsea", "[Sat Aug/12]",
       "15.00  Chelsea  0-0  Everton" >>
TxtBad ==
    {"15.00  Arsenal  x-1  Everton", "Arsenal  2-  Everton", "15.00  Arsenal  2-1", "???",
     "[TBD]", "garbage"}

LineFile(kind, lines, without) ==
    [kind |-> kind, lines |-> lines, without |-> without, season_year |-> "2023"]
LineFiles ==
    { LineFile("csv", InsertAt(CsvGood, i, bad), CsvGood) : i \in 1..3, bad \in CsvBad }
      \cup { LineFile("txt", InsertAt(TxtGood, i, bad), TxtGood) : i \in {1, 3, 4}, bad \in TxtBad }

\* the parser a driver uses for a file; [raised, fixtures]
parse_lines(path, kind, lines, season_year) ==
    IF kind = "csv"
    THEN (IF path = "legacy" THEN parse_openfootball_csv(lines, EmptyMapper)
          ELSE [raised |-> FALSE, fixtures |-> parse_fixture_csv(lines, EmptyMapper)])
    ELSE [raised |-> FALSE,
          fixtures |-> IF path = "legacy"
                       THEN parse_openfootball_fixture_txt(lines, EmptyMapper, season_year)
                       ELSE parse_fixture_txt(lines, EmptyMapper, season_year)]

InitLines ==
    /\ DriverIdle
    /\ arg = [op |-> "ingest_lines", path |-> "none", file |-> LineFile("none", <<>>, <<>>)]
    /\ ret = [before |-> EmptyDb, fixtures |-> <<>>, added |-> 0, updated |-> 0, raised |-> FALSE]

\* a driver's fixture branch on one file
IngestLines(path, file) ==
    /\ arg.op = "ingest_lines" /\ arg.path = "none" /\ pc = "idle"
    /\ arg' = [op |-> "ingest_lines", path |-> path, file |-> file]
    /\ LET Done(o) == db' = o.db /\ ret' = o.ret
       IN Done(IF file.kind = "csv" THEN ingest_fixture_csv(db, path, file)
               ELSE ingest_fixture_text(db, path, file))
    /\ UNCHANGED << tree, content, disk, pc, driver, force, runs, state, ri, fi, sha1, recs,
                    season_id, counts, bound, events, phases, failed, faulted, fdb, start, prev,
                    edited >>

NextLines == \E path \in IngestPaths, file \in LineFiles : IngestLines(path, file)

SpecLines == InitLines /\ [][NextLines]_vars

LinesIngested == arg.op = "ingest_lines" /\ arg.path # "none"
\* the records the parser returns for the file without the line put in
OtherRecords ==
    Rows(parse_lines(arg.path, arg.file.kind, arg.file.without, arg.file.season_year).fixtures)
ParserRaised ==
    parse_lines(arg.path, arg.file.kind, arg.file.lines, arg.file.season_year).raised

\* C22: a malformed line or row of a fixture file (text or CSV) does not
\* make the parser raise and does not keep the records of the file's other
\* lines from being returned by the parser and stored
LineFailureIsolated ==
    LinesIngested =>
        /\ ~ParserRaised
        /\ \A fx \in OtherRecords : fx \in LastRecords /\ StoredAs(db, fx) # {}

\* =====================================================================
\* main of enhanced_ingestion.py with --parallel: one sync_repo call per
\* repository on a thread pool, all of them on the one state dict; and
\* the same run without --parallel
\* =====================================================================
ParFile(repo, dir, file, b) == [f |-> FileOfPath(repo, dir, file), b |-> b]

\* the repositories of a data tree, each the files os.walk yields with
\* the content they hold
ParTrees ==
    { << << ParFile("eng-england", "docs", "README.md", 1),
            ParFile("eng-england", "2023-24", "1-premierleague.txt", 1) >>,
         << ParFile("es-espana", "docs", "README.md", 2),
            ParFile("es-espana", "2023-24", "1-liga.csv", 1) >> >>,
      << << ParFile("eng-england", "docs", "README.md", 1),
            ParFile("eng-england", "docs", "NOTES.md", 2) >>,
         << ParFile("es-espana", "docs", "README.md", 2) >>,
         << ParFile("it-italy", "docs", "NOTES.md", 3) >> >> }

ParFilesOf(repos) == UNION { Rows(repos[r]) : r \in 1..Len(repos) }
ParKeys(repos) == { state_key(x.f) : x \in ParFilesOf(repos) }

\* the state files a run can find: every entry absent, or the hash of
\* some file's content
ParStates(repos) ==
    [ParKeys(repos) -> {NoHash} \cup { sha1_hex(x.b) : x \in ParFilesOf(repos) }]

\* the except clauses of sync_repo are reached: the upsert call of a
\* recognized file raises NameError in this driver
file_raises(f) == Recognized(f)

\* the loop body of sync_repo on one file, on the state dict and the store
sync_file(st, x, frc) ==
    IF ShouldSkip(frc, st.state[state_key(x.f)], sha1_hex(x.b)) THEN st
    ELSE [state |-> IF file_raises(x.f) THEN st.state
                    ELSE advance_state(st.state, state_key(x.f), sha1_hex(x.b)),
          db |-> process_file(st.db, "enhanced", x.f, x.b)]

RECURSIVE sync_repo_files(_, _, _, _)
sync_repo_files(st, files, i, frc) ==
    IF i > Len(files) THEN st ELSE sync_repo_files(sync_file(st, files[i], frc), files, i + 1, frc)

\* the sequential branch of main: the repositories one after the other
RECURSIVE sequential_main(_, _, _, _)
sequential_main(st, repos, r, frc) ==
    IF r > Len(repos) THEN st
    ELSE sequential_main(sync_repo_files(st, repos[r], 1, frc), repos, r + 1, frc)

InitMain ==
    /\ DriverIdle
    /\ \E repos \in ParTrees, parallel \in BOOLEAN, frc \in BOOLEAN :
         \E state0 \in ParStates(repos) :
           /\ arg = [op |-> "main", parallel |-> parallel, force |-> frc, repos |-> repos,
                     state0 |-> state0]
           /\ ret = [state |-> load_state(state0), disk |-> state0,
                     at |-> [r \in 1..Len(repos) |-> 1], busy |-> [r \in 1..Len(repos) |-> FALSE],
                     order |-> <<>>, saved |-> FALSE]

ThreadDone(r) == ret.at[r] > Len(arg.repos[r])
\* the thread of repository r may run: always on the pool, after the
\* repositories before it in the for loop
MayRun(r) ==
    /\ arg.op = "main" /\ r \in 1..Len(arg.repos) /\ ~ThreadDone(r)
    /\ (arg.parallel /\ Len(arg.repos) > 1) \/ \A q \in 1..(r - 1) : ThreadDone(q)

\* sha1_of_file and the skip test of the next file of repository r
SkipTest(r) ==
    /\ MayRun(r) /\ ~ret.busy[r]
    /\ LET Next_(x) ==
               IF ShouldSkip(arg.force, ret.state[state_key(x.f)], sha1_hex(x.b))
               THEN ret' = [ret EXCEPT !.at[r] = @ + 1]
               ELSE ret' = [ret EXCEPT !.busy[r] = TRUE]
       IN Next_(arg.repos[r][ret.at[r]])
    /\ UNCHANGED << arg, driverVars >>

\* the try block on that file and state[state_key] = sha1
HandleFile(r) ==
    /\ MayRun(r) /\ ret.busy[r]
    /\ LET Next_(x) ==
               /\ db' = process_file(db, "enhanced", x.f, x.b)
               /\ ret' = [ret EXCEPT !.state = IF file_raises(x.f) THEN @
                                               ELSE advance_state(@, state_key(x.f),
                                                                  sha1_hex(x.b)),
                                     !.at[r] = @ + 1, !.busy[r] = FALSE,
                                     !.order = Append(@, r)]
       IN Next_(arg.repos[r][ret.at[r]])
    /\ UNCHANGED << arg, tree, content, disk, pc, driver, force, runs, state, ri, fi, sha1, recs,
                    season_id, counts, bound, events, phases, failed, faulted, fdb, start, prev,
                    edited >>

\* every sync_repo call has returned: save_state
SaveMainState ==
    /\ arg.op = "main" /\ ~ret.saved
    /\ \A r \in 1..Len(arg.repos) : ThreadDone(r)
    /\ ret' = [ret EXCEPT !.disk = save_state(ret.state), !.saved = TRUE]
    /\ UNCHANGED << arg, driverVars >>

NextMain ==
    \/ \E r \in 1..3 : SkipTest(r)
    \/ \E r \in 1..3 : HandleFile(r)
    \/ SaveMainState

SpecMain == InitMain /\ [][NextMain]_vars

MainSaved == arg.op = "main" /\ ret.saved
SequentialState ==
    sequential_main([state |-> arg.state0, db |-> EmptyDb], arg.repos, 1, arg.force).state

\* C23: for the same data tree and initial state map, under every
\* interleaving of the repository threads, the state map a --parallel run
\* saves is the one the sequential run saves
ParallelStateEqualsSequential == MainSaved => ret.disk = SequentialState

\* a parallel run has saved a state map it changed, and a file of a later
\* repository was handled before a file of an earlier one
ParallelStateWitness ==
    /\ MainSaved /\ arg.parallel
    /\ ret.disk # arg.state0
    /\ \E i, j \in 1..Len(ret.order) : i < j /\ ret.order[i] > ret.order[j]

\* =====================================================================
\* Two partitions of a --parallel run inside bulk_upsert_fixtures at the
\* same time, each on its own session: the placeholder Club and Team of
\* one team name, statement by statement.  A query reads what is
\* committed; db.add followed by db.commit() writes one row.  ret.com is
\* the committed store, ret.ses[s] the locals of session s.
\* =====================================================================
Sessions == {1, 2}
RaceNames == {"Arsenal", "Chelsea"}

\* a Club that a club file brought in (no Team yet), and one with its Team
ClubOnly(name) ==
    [EmptyDb EXCEPT !.clubs = << ClubRow(1, ClubRec(name, 0, "", "", "")) >>]
ClubAndTeam(name) ==
    [ClubOnly(name) EXCEPT !.teams = << [id |-> 1, club_id |-> 1, team_type |-> "club"] >>]
\* the store the run starts on
RaceStores == {EmptyDb, ClubOnly("Arsenal"), ClubAndTeam("Arsenal")}

SessionAt(name, at, club_id, team_id) ==
    [name |-> name, at |-> at, club_id |-> club_id, team_id |-> team_id]

InitRace ==
    /\ DriverIdle
    /\ \E d \in RaceStores, n1 \in RaceNames, n2 \in RaceNames :
         /\ arg = [op |-> "race", before |-> d, names |-> << n1, n2 >>]
         /\ ret = [com |-> d,
                   ses |-> [s \in Sessions |-> SessionAt(arg.names[s], "start", NoId, NoId)]]

SessionStep(s, at, next) ==
    /\ arg.op = "race" /\ ret.ses[s].at = at
    /\ ret' = next
    /\ UNCHANGED << arg, driverVars >>

\* club_map and team_map as read at the top of the call, then
\* team_map.get(name) and club_map.get(name)
PrefetchMaps(s) ==
    LET Maps(m, name) ==
            IF m.team_map[name] # NoId
            THEN SessionAt(name, "done", m.club_map[name], m.team_map[name])
            ELSE IF m.club_map[name] # NoId
            THEN SessionAt(name, "team_query", m.club_map[name], NoId)
            ELSE SessionAt(name, "club_query", NoId, NoId)
    IN SessionStep(s, "start",
         [ret EXCEPT !.ses[s] = Maps(InitialMaps(ret.com, {@.name}), @.name)])

\* db.query(Club).filter_by(name=...).first()
QueryClub(s) ==
    LET Found(id) ==
            [ret EXCEPT !.ses[s].club_id = id,
                        !.ses[s].at = IF id = NoId THEN "club_add" ELSE "team_query"]
    IN SessionStep(s, "club_query",
         Found(FirstId({ c \in Rows(ret.com.clubs) : c.name = ret.ses[s].name })))

\* Club(name=..., country=None); db.add; db.commit()
AddClub(s) ==
    SessionStep(s, "club_add",
      [ret EXCEPT !.com.clubs = Append(@, ClubRow(NextId(@), ClubRec(ret.ses[s].name, 0, "", "", ""))),
                  !.ses[s].club_id = NextId(ret.com.clubs),
                  !.ses[s].at = "team_query"])

\* db.query(Team).filter_by(club_id=club_id, team_type='club').first()
QueryTeam(s) ==
    LET Found(id) ==
            [ret EXCEPT !.ses[s].team_id = id,
                        !.ses[s].at = IF id = NoId THEN "team_add" ELSE "done"]
    IN SessionStep(s, "team_query",
         Found(FirstId({ t \in Rows(ret.com.teams) :
                           t.club_id = ret.ses[s].club_id /\ t.team_type = "club" })))

\* Team(club_id=club_id, team_type=TeamType.CLUB); db.add; db.commit()
AddTeam(s) ==
    SessionStep(s, "team_add",
      [ret EXCEPT !.com.teams = Append(@, [id |-> NextId(@), club_id |-> ret.ses[s].club_id,
                                           team_type |-> "club"]),
                  !.ses[s].team_id = NextId(ret.com.teams),
                  !.ses[s].at = "done"])

NextRace ==
    \E s \in Sessions :
        \/ PrefetchMaps(s)
        \/ QueryClub(s)
        \/ AddClub(s)
        \/ QueryTeam(s)
        \/ AddTeam(s)

SpecRace == InitRace /\ [][NextRace]_vars

RaceRun == arg.op = "race"
RaceDone == RaceRun /\ \A s \in Sessions : ret.ses[s].at = "done"
\* both sessions went through the creation path for one and the same name
RaceSameName == RaceRun /\ arg.names[1] = arg.names[2]

MaxFind == 3

FindYears == {"2023", "2024"}
FindRepos == {"eng-england", "es-espana"}

\* 'Arsenal' in three records of one batch; one record of two other
\* names; a record whose home and away team are the same name
BatchRepeated ==
    << FixtureRec(Str("2023-08-11"), "Arsenal", "Chelsea", TRUE, 2, 1),
       FixtureRec(Str("2023-08-12"), "Arsenal", "Everton", FALSE, NoScore, NoScore),
       FixtureRec(Str("2023-08-13"), "Chelsea", "Arsenal", TRUE, 0, 0) >>
BatchOther == << FixtureRec(Str("2023-08-12"), "Everton", "Chelsea", TRUE, 1, 1) >>
BatchSelf == << FixtureRec(Str("2023-08-14"), "Everton", "Everton", FALSE, NoScore, NoScore) >>
\* the same match in two records of one batch, the second with a score
BatchTwice ==
    << FixtureRec(Str("2023-08-15"), "Arsenal", "Chelsea", FALSE, NoScore, NoScore),
       FixtureRec(Str("2023-08-15"), "Arsenal", "Chelsea", TRUE, 1, 0) >>
FindBatches == {BatchRepeated, BatchOther, BatchSelf, BatchTwice}

InitFind ==
    /\ DriverIdle
    /\ arg = [op |-> "find", call |-> "none"]
    /\ ret = [before |-> EmptyDb]

FindCall(call, d) ==
    /\ arg.op = "find" /\ pc = "idle" /\ runs < MaxFind
    /\ runs' = runs + 1
    /\ arg' = call
    /\ ret' = [before |-> db]
    /\ db' = d
    /\ UNCHANGED << tree, content, disk, pc, driver, force, state, ri, fi, sha1, recs,
                    season_id, counts, bound, events, phases, failed, faulted, fdb, start, prev,
                    edited >>

GetOrCreateSeason(season_year, repo_name) ==
    FindCall([op |-> "find", call |-> "season", season_year |-> season_year,
              repo_name |-> repo_name],
             get_or_create_season(db, season_year, repo_name).db)

\* the batch goes to a season that is stored; fail: the final commit raises
BulkUpsertFixtures(fixtures, sid, fail) ==
    /\ \E s \in Rows(db.seasons) : s.id = sid
    /\ FindCall([op |-> "find", call |-> "upsert", fixtures |-> fixtures, season_id |-> sid,
                 fail |-> fail, legacy |-> FALSE],
                bulk_upsert_fixtures(db, fixtures, sid, fail).db)

\* sync_fixtures.bulk_upsert_fixtures on the records that pass the driver's
\* gate
BulkUpsertFixturesLegacy(fixtures, sid, fail) ==
    /\ \E s \in Rows(db.seasons) : s.id = sid
    /\ FindCall([op |-> "find", call |-> "upsert", fixtures |-> fixtures, season_id |-> sid,
                 fail |-> fail, legacy |-> TRUE],
                bulk_upsert_fixtures_legacy(db, SelectSeq(fixtures, validate_fixture_legacy),
                                            sid, fail).db)

NextFind ==
    \/ \E season_year \in FindYears, repo_name \in FindRepos :
          GetOrCreateSeason(season_year, repo_name)
    \/ \E fixtures \in FindBatches, sid \in 1..MaxFind, fail \in BOOLEAN :
          \/ BulkUpsertFixtures(fixtures, sid, fail)
          \/ BulkUpsertFixturesLegacy(fixtures, sid, fail)

SpecFind == InitFind /\ [][NextFind]_vars

CompetitionsNamed(d, name) == { c \in Rows(d.competitions) : c.name = name }
SeasonsOf(d, s) ==
    { x \in Rows(d.seasons) : /\ x.competition_id = s.competition_id
                              /\ x.year_start = s.year_start /\ x.year_end = s.year_end }
Upserted == arg.op = "find" /\ arg.call = "upsert"

\* C25: after any sequence of bulk_upsert_fixtures and get_or_create_season
\* calls run one at a time, no two Club rows share a name, every Club has
\* exactly one Team, no two Competitions share a name and no two Seasons
\* share (competition, year_start, year_end); every team name of the batch
\* just upserted has its one Club, however many records named it.
SequentialUniqueness ==
    arg.op = "find" =>
        /\ \A n \in TeamNames : Cardinality(ClubsNamed(db, n)) <= 1
        /\ \A c \in Rows(db.clubs) : Cardinality(TeamsOfClub(db, c)) = 1
        /\ \A c \in Rows(db.competitions) : Cardinality(CompetitionsNamed(db, c.name)) = 1
        /\ \A s \in Rows(db.seasons) : Cardinality(SeasonsOf(db, s)) = 1
        /\ Upserted =>
              \A n \in NamesOf(SelectSeq(arg.fixtures, validate_fixture)) :
                  Cardinality(ClubsNamed(db, n)) = 1

\* a batch naming 'Arsenal' three times reached a store that did not know
\* it, after a season had been asked for twice
SequentialUniquenessWitness ==
    /\ Upserted /\ arg.fixtures = BatchRepeated
    /\ ClubsNamed(ret.before, "Arsenal") = {}
    /\ Cardinality(ClubsNamed(db, "Arsenal")) = 1
    /\ Len(db.clubs) = 3 /\ Len(db.teams) = 3
    /\ Len(db.seasons) = 1 /\ runs = 3

\* =====================================================================
\* Post-hoc repair: scripts/clear_incorrect_fixtures.py,
\* scripts/fix_duplicate_fixtures.py and scripts/fix_duplicate_leagues.py
\* =====================================================================
\* the keyword tables, without the spellings that carry an umlaut or an
\* accent (no club name below contains one)
GERMAN_TEAM_KEYWORDS ==
    << "Munchen", "Dortmund", "Bayern", "Nurnberg", "Koln", "Werder", "Hertha", "Stuttgart",
       "Hamburg", "Leverkusen", "Flensburg", "Oldenburg", "Jeddeloh", "Havelse",
       "Kickers Emden", "Norderstedt" >>
SPANISH_TEAM_KEYWORDS ==
    << "Madrid", "Barcelona", "Sevilla", "Valencia", "Atletico", "Villarreal", "Real",
       "Getafe", "Mallorca", "Vallecano", "Sociedad", "Almeria", "Cadiz", "Las Palmas",
       "Girona", "Betis" >>
\* fix_duplicate_fixtures.GERMAN_TEAMS, likewise
GERMAN_TEAMS ==
    {"Hamburger SV II", "Weiche Flensburg 08", "Alemannia Aachen", "Werder Bremen II",
     "SSV Jeddeloh II", "TSV Schwaben Augsburg", "TSV Havelse", "FC Ingolstadt 04",
     "SV Wehen Wiesbaden", "Kickers Emden", "Eintracht Norderstedt"}

\* any(keyword in name for keyword in keywords)
any_keyword(keywords, name) == \E i \in 1..Len(keywords) : in_str(keywords[i], name)
is_german(name) == any_keyword(GERMAN_TEAM_KEYWORDS, name)
is_spanish(name) == any_keyword(SPANISH_TEAM_KEYWORDS, name)

\* fixture.season.competition, or a row without name and country when the
\* fixture has no season or the season no competition
NoCompetition == [id |-> NoId, name |-> "", country |-> ""]
competition_of(d, fx) ==
    LET cs == { c \in Rows(d.competitions) :
                  \E s \in Rows(d.seasons) : s.id = fx.season_id /\ s.competition_id = c.id }
    IN IF cs = {} THEN NoCompetition ELSE CHOOSE c \in cs : TRUE

\* Fixture.match_date >= date.today(); a NULL date compares as not true
upcoming(match_date) ==
    LET After(dt) ==
            /\ dt.ok
            /\ \/ dt.y > Today[1]
               \/ (dt.y = Today[1] /\ dt.m > Today[2])
               \/ (dt.y = Today[1] /\ dt.m = Today[2] /\ dt.d >= Today[3])
    IN match_date # None /\ After(strptime_ymd(match_date.v))

\* the key the scripts group fixtures by
group_key(d, fx) == << TeamName(d, fx.home_team_id), TeamName(d, fx.away_team_id), fx.match_date >>
group_of(d, among, fx) == { g \in among : group_key(d, g) = group_key(d, fx) }

\* db.delete(fixture) for each of the fixtures, then db.commit(): the rows
\* go; relationship('MatchResult', uselist=False) has no delete cascade, so
\* the unit of work sets fixture_id of the fixture's result to NULL
delete_fixtures(d, ids) ==
    [d EXCEPT !.fixtures = SelectSeq(@, LAMBDA f : f.id \notin ids),
              !.results = [i \in 1..Len(@) |->
                             IF @[i].fixture_id \in ids THEN [@[i] EXCEPT !.fixture_id = NoId]
                             ELSE @[i]]]

\* db.query(Fixture).join(Season).filter(Season.competition_id == comp.id,
\* Fixture.match_date >= upcoming_date) over the competitions of a country
upcoming_in(d, comp_ids) ==
    { fx \in Rows(d.fixtures) :
        /\ upcoming(fx.match_date)
        /\ \E s \in Rows(d.seasons) : s.id = fx.season_id /\ s.competition_id \in comp_ids }
comps_of_country(d, country) == { c.id : c \in { x \in Rows(d.competitions) : x.country = country } }

\* a variant that tries Spain before Germany
correct_country_spain_first(home, away) ==
    IF is_spanish(home) /\ is_spanish(away) THEN "Spain"
    ELSE IF is_german(home) /\ is_german(away) THEN "Germany"
    ELSE ""

\* the country both names point to; Germany is tried first
correct_country(home, away) ==
    IF is_german(home) /\ is_german(away) THEN "Germany"
    ELSE IF is_spanish(home) /\ is_spanish(away) THEN "Spain"
    ELSE ""

\* clear_incorrect_fixtures: the fixtures it deletes
clear_incorrect_targets(d) ==
    LET home(fx) == TeamName(d, fx.home_team_id)
        away(fx) == TeamName(d, fx.away_team_id)
        spanish_comps == comps_of_country(d, "Spain")
        german_comps == comps_of_country(d, "Germany")
        german_in_spanish ==
            { fx \in upcoming_in(d, spanish_comps) :
                /\ is_german(home(fx)) \/ is_german(away(fx))
                /\ ~(is_spanish(home(fx)) /\ is_spanish(away(fx))) }
        spanish_in_german ==
            { fx \in upcoming_in(d, german_comps) :
                /\ is_spanish(home(fx)) \/ is_spanish(away(fx))
                /\ ~(is_german(home(fx)) /\ is_german(away(fx))) }
        all_fixtures == { fx \in Rows(d.fixtures) : upcoming(fx.match_date) }
        duplicates ==
            { fx \in all_fixtures :
                /\ Cardinality(group_of(d, all_fixtures, fx)) > 1
                /\ correct_country(home(fx), away(fx)) # ""
                /\ competition_of(d, fx).country # correct_country(home(fx), away(fx)) }
        both_german ==
            { fx \in upcoming_in(d, spanish_comps) : is_german(home(fx)) /\ is_german(away(fx)) }
    IN german_in_spanish \cup spanish_in_german \cup duplicates \cup both_german

clear_incorrect_fixtures(d) ==
    delete_fixtures(d, { fx.id : fx \in clear_incorrect_targets(d) })

\* sorted(group, key=priority): stable, so ties stay in query order; the
\* queries carry no ORDER BY and are read in id order
RECURSIVE sorted_group(_, _)
sorted_group(group, priority) ==
    IF group = {} THEN <<>>
    ELSE LET first == CHOOSE f \in group :
                        \A g \in group : \/ priority[f.id] < priority[g.id]
                                         \/ (priority[f.id] = priority[g.id] /\ f.id <= g.id)
         IN << first >> \o sorted_group(group \ {first}, priority)

\* a variant that deletes the first of the sorted group and keeps the rest
first_of_group(sorted) == << Head(sorted) >>
\* sorted_group[1:], the members that are deleted
rest_of_group(sorted) == Tail(sorted)

\* competition_priority.get(f.season.competition_id, 999) with the
\* priorities enumerate(regionalligas) gives
competition_priority(d, regionalligas, fx) ==
    LET cid == competition_of(d, fx).id
    IN IF cid \in regionalligas
       THEN Cardinality({ c \in regionalligas : c < cid })
       ELSE 999

\* fix_duplicate_fixtures.find_duplicates
find_duplicates(d) ==
    LET regionalligas ==
            { c.id : c \in { x \in Rows(d.competitions) :
                               in_str("Regionalliga", x.name) /\ x.country = "Germany" } }
        fixtures ==
            { fx \in Rows(d.fixtures) :
                /\ \E s \in Rows(d.seasons) :
                      s.id = fx.season_id /\ s.competition_id \in regionalligas
                /\ TeamName(d, fx.home_team_id) \in GERMAN_TEAMS }
        priority == [i \in { fx.id : fx \in fixtures } |->
                        competition_priority(d, regionalligas,
                                             CHOOSE fx \in fixtures : fx.id = i)]
        removed ==
            UNION { { f.id : f \in Rows(rest_of_group(sorted_group(group_of(d, fixtures, fx),
                                                                   priority))) } :
                    fx \in { g \in fixtures : Cardinality(group_of(d, fixtures, g)) > 1 } }
    IN IF regionalligas = {} THEN d ELSE delete_fixtures(d, removed)

\* fix_duplicate_leagues.fix_duplicate_league_fixtures
fix_duplicate_league_fixtures(d) ==
    LET named(name) == FirstId({ c \in Rows(d.competitions) :
                                   c.name = name /\ c.country = "Spain" })
        la_liga == named("La Liga")
        la_liga2 == named("La Liga 2")
        la_liga_fixtures == upcoming_in(d, {la_liga})
        la_liga2_fixtures == upcoming_in(d, {la_liga2})
        duplicates == { f2 \in la_liga2_fixtures :
                          \E f1 \in la_liga_fixtures : group_key(d, f1) = group_key(d, f2) }
    IN IF la_liga = NoId \/ la_liga2 = NoId THEN d
       ELSE delete_fixtures(d, { f.id : f \in duplicates })

\* ---------------------------------------------------------------------
\* The repair passes run on demand, in any order, on a store that syncs
\* left behind: up to two matches, each filed under some competitions.
\* ---------------------------------------------------------------------
RepairNames ==
    << "Bayern Munchen", "Borussia Dortmund", "Real Madrid", "FC Barcelona",
       "Hamburger SV II", "Kickers Emden", "Arsenal", "Chelsea", "Real Hamburg",
       "Atletico Dortmund" >>
RepairCompetitions ==
    << [name |-> "La Liga", country |-> "Spain"],
       [name |-> "La Liga 2", country |-> "Spain"],
       [name |-> "Bundesliga", country |-> "Germany"],
       [name |-> "Regionalliga Nord", country |-> "Germany"],
       [name |-> "Regionalliga West", country |-> "Germany"],
       [name |-> "Premier League", country |-> "England"],
       [name |-> "Regionalliga Bayern", country |-> "Germany"] >>
\* a match (home and away as indices of RepairNames) and the competitions
\* a sync may have filed it under
RepairMatch(home, away, comps) == [home |-> home, away |-> away, comps |-> comps]
RepairMatches ==
    << RepairMatch(1, 2, {1, 3, 6}), RepairMatch(3, 4, {1, 2, 3}),
       RepairMatch(5, 6, {4, 5, 7}), RepairMatch(7, 8, {1, 6}), RepairMatch(7, 3, {3}),
       RepairMatch(9, 10, {1, 3}) >>
MatchIds == DOMAIN RepairMatches
CompIds == DOMAIN RepairCompetitions

\* when the matches are: long played, still to come, or played today
RepairWhen == {"played", "coming", "today"}
repair_date(when) ==
    IF when = "played" THEN Date("2023-08-11")
    ELSE IF when = "coming" THEN Date("2027-01-02")
    ELSE Date("2026-11-04")

NoFiling == [m \in MatchIds |-> {}]
Filings(m) == { [NoFiling EXCEPT ![m] = cs] : cs \in (SUBSET RepairMatches[m].comps) \ {{}} }
\* one match filed, or two different matches
RepairFilings ==
    LET one == UNION { Filings(m) : m \in MatchIds }
    IN one \cup { [m \in MatchIds |-> f[m] \cup g[m]] : f \in one, g \in one }

\* the rows, in match then competition order
FiledSlots(filing) ==
    SelectSeq([k \in 1..(Len(RepairMatches) * Len(RepairCompetitions)) |->
                 << ((k - 1) \div Len(RepairCompetitions)) + 1,
                    ((k - 1) % Len(RepairCompetitions)) + 1 >>],
              LAMBDA p : p[2] \in filing[p[1]])

RepairStore(filing, when) ==
    LET slots == FiledSlots(filing)
    IN [EmptyDb EXCEPT
          !.clubs = [i \in DOMAIN RepairNames |-> ClubRow(i, ClubRec(RepairNames[i], 0, "", "", ""))],
          !.teams = [i \in DOMAIN RepairNames |-> [id |-> i, club_id |-> i, team_type |-> "club"]],
          !.competitions = [i \in CompIds |->
                              [id |-> i, name |-> RepairCompetitions[i].name,
                               country |-> RepairCompetitions[i].country]],
          !.seasons = [i \in CompIds |->
                         [id |-> i, competition_id |-> i, year_start |-> 2026, year_end |-> 2027,
                          season_name |-> "2026-27"]],
          !.fixtures = [k \in DOMAIN slots |->
                          [id |-> k, season_id |-> slots[k][2], match_date |-> repair_date(when),
                           home_team_id |-> RepairMatches[slots[k][1]].home,
                           away_team_id |-> RepairMatches[slots[k][1]].away,
                           stage |-> "", venue |-> "", is_completed |-> when # "coming"]],
          !.results = IF when = "coming" THEN <<>>
                      ELSE [k \in DOMAIN slots |->
                              [id |-> k, fixture_id |-> k, home_score |-> 2, away_score |-> 1]]]

RepairPasses == {"clear_incorrect_fixtures", "find_duplicates", "fix_duplicate_league_fixtures"}

InitRepair ==
    /\ tree = 1
    /\ content = [k \in Keys(tree) |-> 1]
    /\ disk = [k \in Keys(tree) |-> NoHash]
    /\ db \in { RepairStore(filing, when) : filing \in RepairFilings, when \in RepairWhen }
    /\ pc = "idle" /\ driver = "enhanced" /\ force = FALSE /\ runs = 0
    /\ state = disk
    /\ ri = 0 /\ fi = 0 /\ sha1 = NoHash /\ recs = <<>> /\ season_id = NoId
    /\ counts = << 0, 0 >> /\ bound = FALSE /\ events = 0
    /\ phases = [k \in Keys(tree) |-> <<>>]
    /\ failed = {} /\ faulted = {}
    /\ fdb = EmptyDb
    /\ start = [disk |-> disk, db |-> db]
    /\ prev = NoPrev
    /\ edited = {}
    /\ arg = [op |-> "repair", pass |-> "none", after |-> "none"]
    /\ ret = [before |-> db, earlier |-> db]

\* one repair script run to its end; ret.before is the store it started
\* on and ret.earlier the store the pass before it started on
RepairPass(pass, d) ==
    /\ arg.op = "repair" /\ pc = "idle" /\ runs < MaxCalls
    /\ runs' = runs + 1
    /\ arg' = [op |-> "repair", pass |-> pass, after |-> arg.pass]
    /\ ret' = [before |-> db, earlier |-> ret.before]
    /\ db' = d
    /\ UNCHANGED << tree, content, disk, pc, driver, force, state, ri, fi, sha1, recs,
                    season_id, counts, bound, events, phases, failed, faulted, fdb, start, prev,
                    edited >>

ClearIncorrectFixtures == RepairPass("clear_incorrect_fixtures", clear_incorrect_fixtures(db))
FixDuplicateFixtures == RepairPass("find_duplicates", find_duplicates(db))
FixDuplicateLeagueFixtures ==
    RepairPass("fix_duplicate_league_fixtures", fix_duplicate_league_fixtures(db))

NextRepair ==
    \/ ClearIncorrectFixtures
    \/ FixDuplicateFixtures
    \/ FixDuplicateLeagueFixtures

SpecRepair == InitRepair /\ [][NextRepair]_vars

Repaired(pass) == arg.op = "repair" /\ arg.pass = pass
FixtureIds(d) == { fx.id : fx \in Rows(d.fixtures) }
\* the fixtures of a store that share home name, away name and date with fx
SameMatch(d, fx) == group_of(d, Rows(d.fixtures), fx)
OtherCountry(country) == IF country = "Germany" THEN "Spain" ELSE "Germany"
BothMatch(d, fx, country) ==
    LET Both(home, away) ==
            IF country = "Germany" THEN is_german(home) /\ is_german(away)
            ELSE is_spanish(home) /\ is_spanish(away)
    IN Both(TeamName(d, fx.home_team_id), TeamName(d, fx.away_team_id))

\* C26: after clear_incorrect_fixtures, of several fixtures with the same
\* home name, away name and date whose two names both match the keywords
\* of country X (Germany or Spain), every copy filed under a competition of
\* the other country is gone and every copy filed under a competition of X
\* is still stored.
ContaminationRepaired ==
    Repaired("clear_incorrect_fixtures") =>
        \A fx \in Rows(ret.before.fixtures) : \A X \in {"Germany", "Spain"} :
            (Cardinality(SameMatch(ret.before, fx)) > 1 /\ BothMatch(ret.before, fx, X)) =>
                /\ competition_of(ret.before, fx).country = OtherCountry(X)
                      => fx.id \notin FixtureIds(db)
                /\ competition_of(ret.before, fx).country = X => fx.id \in FixtureIds(db)

\* C26, amended: after clear_incorrect_fixtures, of several fixtures dated
\* today or later with the same home name, away name and date whose two
\* names both match the keywords of country X (Germany; or Spain, unless
\* both also match the German keywords), every copy filed under a
\* competition of the other country is gone and every copy filed under a
\* competition of X is still stored.
UpcomingContaminationRepaired ==
    Repaired("clear_incorrect_fixtures") =>
        \A fx \in Rows(ret.before.fixtures) : \A X \in {"Germany", "Spain"} :
            (/\ upcoming(fx.match_date)
             /\ Cardinality(SameMatch(ret.before, fx)) > 1
             /\ BothMatch(ret.before, fx, X)
             /\ X = "Spain" => ~BothMatch(ret.before, fx, "Germany")) =>
                /\ competition_of(ret.before, fx).country = OtherCountry(X)
                      => fx.id \notin FixtureIds(db)
                /\ competition_of(ret.before, fx).country = X => fx.id \in FixtureIds(db)

\* two names that match both tables, filed under La Liga and under the
\* Bundesliga for a day to come: the La Liga copy went, the other stayed
UpcomingContaminationWitness ==
    /\ Repaired("clear_incorrect_fixtures")
    /\ \E fx \in Rows(ret.before.fixtures), gx \in Rows(ret.before.fixtures) :
          /\ upcoming(fx.match_date) /\ gx \in SameMatch(ret.before, fx)
          /\ BothMatch(ret.before, fx, "Germany") /\ BothMatch(ret.before, fx, "Spain")
          /\ competition_of(ret.before, fx).country = "Spain" /\ fx.id \notin FixtureIds(db)
          /\ competition_of(ret.before, gx).country = "Germany" /\ gx.id \in FixtureIds(db)

\* C27: after a duplicate-resolution step (the one of
\* clear_incorrect_fixtures, or find_duplicates), every group of more than
\* one fixture sharing home name, away name and date has exactly one
\* fixture left.
DuplicateGroupsResolved ==
    (Repaired("clear_incorrect_fixtures") \/ Repaired("find_duplicates")) =>
        \A fx \in Rows(ret.before.fixtures) :
            Cardinality(SameMatch(ret.before, fx)) > 1 =>
                Cardinality({ g \in SameMatch(ret.before, fx) : g.id \in FixtureIds(db) }) = 1

\* C28: after a repair pass every MatchResult row refers to a Fixture that
\* is stored, the results of the deleted fixtures having gone with them.
RepairRemovesResults ==
    (arg.op = "repair" /\ arg.pass # "none") =>
        \A r \in Rows(db.results) : r.fixture_id \in FixtureIds(db)

\* C29: a repair pass run right after the same pass, with nothing in
\* between, deletes nothing: the store after it is the store before it.
RepairIdempotent ==
    (arg.op = "repair" /\ arg.pass # "none" /\ arg.after = arg.pass) => db = ret.before

\* find_duplicates ran twice in a row and its first run had deleted a
\* fixture
RepairIdempotentWitness ==
    /\ Repaired("find_duplicates") /\ arg.after = "find_duplicates"
    /\ Len(ret.before.fixtures) < Len(ret.earlier.fixtures)
    /\ db = ret.before

\* every row of the old table is still there, under its id
KeepsRows(old, new) ==
    /\ Len(new) >= Len(old)
    /\ \A i \in 1..Len(old) : new[i].id = old[i].id

\* C30: no step of a sync run deletes a Club, Team, Competition, Season or
\* Fixture row, and no step modifies or deletes an IngestionAudit row that
\* exists; the row count of each of these tables never goes down.
SyncNeverDeletes ==
    [][/\ KeepsRows(db.clubs, db'.clubs)
       /\ KeepsRows(db.teams, db'.teams)
       /\ KeepsRows(db.competitions, db'.competitions)
       /\ KeepsRows(db.seasons, db'.seasons)
       /\ KeepsRows(db.fixtures, db'.fixtures)
       /\ Len(db'.audits) >= Len(db.audits)
       /\ SubSeq(db'.audits, 1, Len(db.audits)) = db.audits]_vars

\* a later run is under way on a store that holds rows and audit records
\* of an earlier one
SyncNeverDeletesWitness ==
    /\ runs >= 2 /\ pc # "idle"
    /\ Len(db.clubs) > 0 /\ Len(db.teams) > 0 /\ Len(db.fixtures) > 0
    /\ Len(db.competitions) > 0 /\ Len(db.seasons) > 0
    /\ Len(db.audits) >= 2
    /\ Len(db.audits) > Len(start.db.audits) /\ Len(start.db.audits) > 0

\* =====================================================================
\* The command-line switches of main(): argparse stores --dry-run as
\* args.dry_run; args is handed to sync_repo, which reads args.force only.
\* One file per call goes through the loop body of sync_repo with an empty
\* state map.
\* =====================================================================
parse_args(dry_run, frc) == [dry_run |-> dry_run, force |-> frc]

DryFiles ==
    { FileOfPath("eng-england", "2023-24", "1-premierleague.txt"),
      FileOfPath("eng-england", "2023-24", "eng.clubs.txt"),
      FileOfPath("eng-england", "2023-24/squads", "arsenal.txt"),
      FileOfPath("eng-england", "2023-24", "1-liga.csv"),
      FileOfPath("eng-england", "docs", "README.md") }

\* the loop body of sync_repo for a file whose hash the state map does not
\* hold: the skip test fails whatever args.force is
sync_repo_with_args(d, drv, args, f) == process_file(d, drv, f, 1)

InitDry ==
    /\ DriverIdle
    /\ arg = [op |-> "sync_args", driver |-> "none"]
    /\ ret = [before |-> EmptyDb]

SyncWithArgs(drv, args, f) ==
    /\ arg.op = "sync_args" /\ pc = "idle" /\ runs < MaxCalls
    /\ runs' = runs + 1
    /\ arg' = [op |-> "sync_args", driver |-> drv, args |-> args, file |-> f]
    /\ ret' = [before |-> db]
    /\ db' = sync_repo_with_args(db, drv, args, f)
    /\ UNCHANGED << tree, content, disk, pc, driver, force, state, ri, fi, sha1, recs,
                    season_id, counts, bound, events, phases, failed, faulted, fdb, start, prev,
                    edited >>

NextDry ==
    \E drv \in Drivers, dry_run \in BOOLEAN, f \in DryFiles :
        SyncWithArgs(drv, parse_args(dry_run, FALSE), f)

SpecDry == InitDry /\ [][NextDry]_vars

\* C31: a run started with --dry-run leaves every table of the store as it
\* was: no row is inserted, updated or deleted.
DryRunWritesNothing ==
    (arg.op = "sync_args" /\ arg.driver # "none" /\ arg.args.dry_run) => db = ret.before

\* =====================================================================
\* The season find-or-create of the three loaders, each called with a
\* season label: enhanced_ingestion.get_or_create_season (through
\* extract_season_year), real_fixture_parser.get_or_create_season and the
\* season step of sync_all_fixtures_from_raw_data.save_to_database.
\* =====================================================================
\* extract_season_year on a path part that matches \d{4}-\d{2}: part[:4]
season_year_of_label(label) == SubSeq(label, 1, 4)

\* year_start and year_end as real_fixture_parser.get_or_create_season
\* reads them from season_name; a ValueError leaves what is assigned so far
real_season_years(season_name) ==
    LET parts == split_on(season_name, "-")
        Years(a, b) ==
            IF a = Raised THEN [year_start |-> 2023, year_end |-> 2024]
            ELSE IF b = Raised THEN [year_start |-> a, year_end |-> 2024]
            ELSE [year_start |-> a, year_end |-> b]
    IN IF Contains(season_name, "-") /\ Len(parts) = 2
       THEN IF Len(parts[1]) = 2
            THEN Years(int("20" \o parts[1]), int("20" \o parts[2]))
            ELSE Years(int(parts[1]), int(parts[2]))
       ELSE [year_start |-> 2023, year_end |-> 2024]

real_get_or_create_season(d, competition_id, season_name) ==
    LET found == { s \in Rows(d.seasons) :
                     s.competition_id = competition_id /\ s.season_name = season_name }
        years == real_season_years(season_name)
    IN IF found # {} THEN d
       ELSE [d EXCEPT !.seasons = Append(@,
               [id |-> NextId(d.seasons), competition_id |-> competition_id,
                year_start |-> years.year_start, year_end |-> years.year_end,
                season_name |-> season_name])]

\* save_to_database, step 2, for one (competition, season); year_end None
\* is stored as NoId; int(season_years[0]) raising ends the call
save_season_years(season_name) ==
    LET season_years == split_on(season_name, "-")
    IN [year_start |-> int(season_years[1]),
        year_end |-> IF Len(season_years) > 1 /\ season_years[2] # ""
                     THEN IF Len(season_years[2]) = 2 THEN int("20" \o season_years[2])
                          ELSE int(season_years[2])
                     ELSE NoId]

save_to_database_season(d, competition_id, season_name) ==
    LET found == { s \in Rows(d.seasons) :
                     s.competition_id = competition_id /\ s.season_name = season_name }
        years == save_season_years(season_name)
    IN IF found # {} \/ years.year_start = Raised \/ years.year_end = Raised THEN d
       ELSE [d EXCEPT !.seasons = Append(@,
               [id |-> NextId(d.seasons), competition_id |-> competition_id,
                year_start |-> years.year_start, year_end |-> years.year_end,
                season_name |-> season_name])]

\* labels of the form YYYY-YY; the driver's int(season_year) is tabulated
\* for the first two
SeasonLabels == {"2023-24", "2024-25"}
OlderLabels == {"1998-99"}
SeasonRepos == << "eng-england", "es-espana" >>

InitSeason ==
    /\ DriverIdle
    /\ arg = [op |-> "season", path |-> "none"]
    /\ ret = [before |-> EmptyDb]

SeasonCall(path, label, c, d) ==
    /\ arg.op = "season" /\ pc = "idle" /\ runs < MaxCalls
    /\ runs' = runs + 1
    /\ arg' = [op |-> "season", path |-> path, label |-> label, competition |-> c]
    /\ ret' = [before |-> db]
    /\ db' = d
    /\ UNCHANGED << tree, content, disk, pc, driver, force, state, ri, fi, sha1, recs,
                    season_id, counts, bound, events, phases, failed, faulted, fdb, start, prev,
                    edited >>

CallGetOrCreateSeason(label, c) ==
    SeasonCall("enhanced", label, c,
               get_or_create_season(db, season_year_of_label(label), SeasonRepos[c]).db)
CallRealGetOrCreateSeason(label, c) ==
    SeasonCall("real", label, c, real_get_or_create_season(db, c, label))
CallSaveToDatabase(label, c) ==
    SeasonCall("sync_all", label, c, save_to_database_season(db, c, label))

NextSeason ==
    \E c \in DOMAIN SeasonRepos :
        \/ \E label \in SeasonLabels : CallGetOrCreateSeason(label, c)
        \/ \E label \in SeasonLabels \cup OlderLabels : CallRealGetOrCreateSeason(label, c)
        \/ \E label \in SeasonLabels \cup OlderLabels : CallSaveToDatabase(label, c)

SpecSeason == InitSeason /\ [][NextSeason]_vars

\* C32: a Season created from a label 'YYYY-YY' has year_start = YYYY and
\* year_end = YYYY + 1, whichever loader created it, and every Season row
\* has year_end > year_start.
SeasonYearBounds ==
    (arg.op = "season" /\ arg.path # "none") =>
        /\ \A s \in Rows(db.seasons) \ Rows(ret.before.seasons) :
              /\ s.year_start = int(season_year_of_label(arg.label))
              /\ s.year_end = s.year_start + 1
        /\ \A s \in Rows(db.seasons) : s.year_end > s.year_start

\* =====================================================================
\* Fixture files at several places of two repositories: the season of the
\* rows a driver's fixture branch inserts.  Each repository is ingested
\* once.
\* =====================================================================
BelongRepos == {"eng-england", "es-espana"}
\* a season directory, a sub-directory of one, and a directory that is no
\* season
BelongDirs == {"2023-24", "2024-25/cup", "archive"}
BelongNames == {"1-premierleague.txt", "1-liga.csv"}

PathFile(f) ==
    [kind |-> f.ext, lines |-> IF f.ext = "csv" THEN CsvGood ELSE TxtGood,
     season_year |-> extract_season_year(f)]

InitBelongs ==
    /\ DriverIdle
    /\ arg = [op |-> "ingest_path", path |-> "none"]
    /\ ret = [before |-> EmptyDb, done |-> {}]

\* the CSV or the fixture-text branch of sync_repo on the file
IngestPath(path, f) ==
    /\ arg.op = "ingest_path" /\ pc = "idle" /\ f.repo \notin ret.done
    /\ arg' = [op |-> "ingest_path", path |-> path, file |-> f]
    /\ ret' = [before |-> db, done |-> ret.done \cup {f.repo}]
    /\ db' = IF f.ext = "csv"
             THEN ingest_csv_of_repo(db, path, PathFile(f), f.repo).db
             ELSE ingest_text_of_repo(db, path, PathFile(f), EmptyMapper, f.repo).db
    /\ UNCHANGED << tree, content, disk, pc, driver, force, runs, state, ri, fi, sha1, recs,
                    season_id, counts, bound, events, phases, failed, faulted, fdb, start, prev,
                    edited >>

NextBelongs ==
    \E path \in IngestPaths, repo \in BelongRepos, dir \in BelongDirs, name \in BelongNames :
        IngestPath(path, FileOfPath(repo, dir, name))

SpecBelongs == InitBelongs /\ [][NextBelongs]_vars

NewFixtures == Rows(db.fixtures) \ Rows(ret.before.fixtures)

\* C33: every Fixture row a driver inserts for a file has a season_id, and
\* that Season belongs to the Competition named after the repository the
\* file was read from, wherever in the repository the file lies.
FixtureBelongsToSeason ==
    (arg.op = "ingest_path" /\ arg.path # "none") =>
        \A fx \in NewFixtures :
            /\ fx.season_id # NoId
            /\ \E s \in Rows(db.seasons), c \in Rows(db.competitions) :
                  /\ s.id = fx.season_id /\ s.competition_id = c.id
                  /\ c.name = arg.file.repo

\* C34: after one bulk_upsert_fixtures call, two records of the batch with
\* the same match_date, home team and away team have at most one Fixture
\* row between them in the store.
BatchDedup ==
    Upserted =>
        \A i \in DOMAIN arg.fixtures : \A j \in DOMAIN arg.fixtures :
            (/\ i < j
             /\ arg.fixtures[i].match_date = arg.fixtures[j].match_date
             /\ arg.fixtures[i].home_team = arg.fixtures[j].home_team
             /\ arg.fixtures[i].away_team = arg.fixtures[j].away_team) =>
                Cardinality(StoredAs(db, arg.fixtures[i])) <= 1

\* ---------------------------------------------------------------------
\* parsers/club_parser.py: bulk_upsert_clubs.  A field the record does not
\* give (None) is 0 for founded_year and "" for the text fields.
\* ---------------------------------------------------------------------
\* the row after the loop over the five fields: a field is set when the
\* record gives it and it differs
club_fields_set(old, c) ==
    [old EXCEPT !.founded_year = IF c.founded_year # 0 THEN c.founded_year ELSE @,
                !.stadium_name = IF c.stadium_name # "" THEN c.stadium_name ELSE @,
                !.city = IF c.city # "" THEN c.city ELSE @,
                !.country = IF c.country # "" THEN c.country ELSE @,
                !.alternative_names =
                    IF c.alternative_names # "" THEN c.alternative_names ELSE @]

\* existing: {c.name: c} over the rows read before the loop; the loop never
\* adds to it
RECURSIVE ParserClubLoop(_, _, _, _)
ParserClubLoop(st, clubs, i, existing) ==
    IF i > Len(clubs) THEN st
    ELSE LET c == clubs[i]
             id == LastId({ r \in Rows(st.cur.clubs) : r.name = c.name })
             Changed(old) == club_fields_set(old, c) # old
             Set(tbl) == [k \in 1..Len(tbl) |->
                             IF tbl[k].id = id THEN club_fields_set(tbl[k], c) ELSE tbl[k]]
         IN ParserClubLoop(
              IF c.name = "" THEN st
              ELSE IF c.name \in existing
              THEN IF \E old \in Rows(st.cur.clubs) : old.id = id /\ Changed(old)
                   THEN [st EXCEPT !.cur.clubs = Set(@), !.updated = @ + 1]
                   ELSE st
              ELSE [st EXCEPT !.ins = Append(@, c)],
              clubs, i + 1, existing)

bulk_upsert_clubs(d, clubs, fail) ==
    LET names == { clubs[i].name : i \in 1..Len(clubs) } \ {""}
        existing == { r.name : r \in { x \in Rows(d.clubs) : x.name \in names } }
        st == ParserClubLoop([cur |-> d, ins |-> <<>>, updated |-> 0], clubs, 1, existing)
    IN IF clubs = <<>> THEN [db |-> d, added |-> 0, updated |-> 0, err |-> FALSE]
       ELSE IF fail THEN [db |-> d, added |-> 0, updated |-> 0, err |-> TRUE]
       ELSE [db |-> bulk_save_clubs(st.cur, st.ins, 1), added |-> Len(st.ins),
             updated |-> st.updated, err |-> FALSE]

\* ---------------------------------------------------------------------
\* Club batches given to the two bulk_upsert_clubs implementations in turn
\* ---------------------------------------------------------------------
\* one club; the club twice with a different stadium; two clubs; a record
\* that gives the name only
ClubBatches ==
    { << ClubRec("Arsenal", 1886, "Emirates", "London", "England") >>,
      << ClubRec("Arsenal", 1886, "Emirates", "London", "England"),
         ClubRec("Arsenal", 1886, "Emirates Stadium", "London", "England") >>,
      << ClubRec("Arsenal", 1886, "Emirates", "London", "England"),
         ClubRec("Chelsea", 1905, "Stamford Bridge", "London", "England") >>,
      << ClubRec("Chelsea", 0, "", "", "") >> }

InitClubs ==
    /\ DriverIdle
    /\ arg = [op |-> "clubs", call |-> "none"]
    /\ ret = [before |-> EmptyDb, added |-> 0, updated |-> 0, other |-> EmptyDb]

ClubCall(module, clubs, fail, out, other) ==
    /\ arg.op = "clubs" /\ pc = "idle" /\ runs < MaxFind
    /\ runs' = runs + 1
    /\ arg' = [op |-> "clubs", call |-> module, clubs |-> clubs, fail |-> fail]
    /\ ret' = [before |-> db, added |-> out.added, updated |-> out.updated,
               other |-> other.db]
    /\ db' = out.db
    /\ UNCHANGED << tree, content, disk, pc, driver, force, state, ri, fi, sha1, recs,
                    season_id, counts, bound, events, phases, failed, faulted, fdb, start, prev,
                    edited >>

\* parsers.club_parser.bulk_upsert_clubs; ret.other is the store that
\* sync_fixtures.bulk_upsert_clubs leaves from the same store and batch
BulkUpsertClubs(clubs, fail) ==
    ClubCall("club_parser", clubs, fail, bulk_upsert_clubs(db, clubs, fail),
             bulk_upsert_clubs_legacy(db, clubs, fail))

\* sync_fixtures.bulk_upsert_clubs; ret.other is the store that
\* parsers.club_parser.bulk_upsert_clubs leaves
BulkUpsertClubsLegacy(clubs, fail) ==
    ClubCall("sync_fixtures", clubs, fail, bulk_upsert_clubs_legacy(db, clubs, fail),
             bulk_upsert_clubs(db, clubs, fail))

NextClubs ==
    \E clubs \in ClubBatches, fail \in BOOLEAN :
        \/ BulkUpsertClubs(clubs, fail)
        \/ BulkUpsertClubsLegacy(clubs, fail)

SpecClubs == InitClubs /\ [][NextClubs]_vars

ClubsUpserted == arg.op = "clubs" /\ arg.call # "none" /\ ~arg.fail
ClubsCalled(d, name) == { r \in Rows(d.clubs) : r.name = name }
BatchCount(clubs, name) == Cardinality({ i \in DOMAIN clubs : clubs[i].name = name })
NewNames == { arg.clubs[i].name : i \in DOMAIN arg.clubs }
                \ { r.name : r \in Rows(ret.before.clubs) }

\* C35: after a bulk_upsert_clubs call from a store with at most one row per
\* club name, a name that the batch holds more than once has exactly one Club
\* row, the added count is the number of names the store did not hold (one
\* per name), and the other implementation leaves the same set of Club rows
\* from the same store and batch.
ClubBatchDedup ==
    (/\ ClubsUpserted
     /\ \A r \in Rows(ret.before.clubs) : Cardinality(ClubsCalled(ret.before, r.name)) = 1) =>
        /\ \A i \in DOMAIN arg.clubs :
              BatchCount(arg.clubs, arg.clubs[i].name) > 1 =>
                  Cardinality(ClubsCalled(db, arg.clubs[i].name)) = 1
        /\ ret.added = Cardinality(NewNames)
        /\ Rows(ret.other.clubs) = Rows(db.clubs)

\* ---------------------------------------------------------------------
\* parsers/club_parser.py: parse_club_txt over the lines of a file
\* (sync_fixtures.parse_openfootball_club_txt is the same loop)
\* ---------------------------------------------------------------------
\* ','.join(alt_names)
RECURSIVE comma_join(_, _)
comma_join(names, i) ==
    IF i > Len(names) THEN ""
    ELSE IF i = Len(names) THEN names[i]
    ELSE names[i] \o "," \o comma_join(names, i + 1)

\* for p in parts[2:]: the last '@' part is the stadium, the last other
\* non-empty part the city (cut at '(' when it holds '(' and ')')
RECURSIVE club_places(_, _, _)
club_places(parts, k, st) ==
    IF k > Len(parts) THEN st
    ELSE LET p == parts[k]
         IN club_places(parts, k + 1,
              IF StartsWith(p, "@") THEN [st EXCEPT !.stadium_name = strip(Tail(p))]
              ELSE IF Contains(p, "(") /\ Contains(p, ")")
              THEN [st EXCEPT !.city = strip(split_on(p, "(")[1])]
              ELSE IF p # "" THEN [st EXCEPT !.city = strip(p)]
              ELSE st)

\* the look-ahead over the lines that start with '|': the index of the
\* first line that does not (0-based) and the names met
RECURSIVE club_alt_lines(_, _, _)
club_alt_lines(lines, j, alt_names) ==
    IF j < Len(lines) /\ StartsWith(strip(lines[j + 1]), "|")
    THEN LET alt_line == strip(split_on(strip(Tail(strip(lines[j + 1]))), "#")[1])
         IN club_alt_lines(lines, j + 1,
              IF alt_line # ""
              THEN alt_names \o SelectSeq(strip_all(split_on(alt_line, "|"), 1), NonEmpty)
              ELSE alt_names)
    ELSE [j |-> j, alt_names |-> alt_names]

club_of_line(line, alt_names, country) ==
    LET parts == strip_all(split_on(line, ","), 1)
        places == club_places(parts, 3, [stadium_name |-> "", city |-> ""])
    IN [name |-> parts[1],
        founded_year |-> IF Len(parts) > 1 /\ parts[2] # "" /\ AllDigits(parts[2])
                         THEN IntAcc(parts[2], 0) ELSE 0,
        stadium_name |-> places.stadium_name, city |-> places.city, country |-> country,
        alternative_names |-> comma_join(alt_names, 1)]

\* the while loop; i is 0-based
RECURSIVE parse_club_lines(_, _, _, _)
parse_club_lines(lines, i, country, clubs) ==
    IF i >= Len(lines) THEN clubs
    ELSE LET line == strip(lines[i + 1])
             ahead == club_alt_lines(lines, i + 1, <<>>)
         IN IF line = "" \/ StartsWith(line, "=") \/ StartsWith(line, "#")
            THEN parse_club_lines(lines, i + 1, country, clubs)
            ELSE parse_club_lines(lines, ahead.j, country,
                                  Append(clubs, club_of_line(line, ahead.alt_names, country)))

parse_club_txt(lines, country) == parse_club_lines(lines, 0, country, <<>>)

\* ---------------------------------------------------------------------
\* Club text files of up to MaxLines lines, parsed one at a time
\* ---------------------------------------------------------------------
MaxLines == 3

\* two header lines, a continuation line, a comment line, a blank line
ClubTextLines ==
    { "Arsenal, 1886, @ Emirates, London", "Chelsea", " | Gunners | AFC  # nick", "# clubs", "" }

ClubTexts == UNION { [1..n -> ClubTextLines] : n \in 0..MaxLines }

InitClubText ==
    /\ DriverIdle
    /\ arg = [op |-> "club_txt", lines |-> <<>>]
    /\ ret = [clubs |-> <<>>]

ParseClubTxt(lines) ==
    /\ arg.op = "club_txt" /\ pc = "idle"
    /\ arg' = [op |-> "club_txt", lines |-> lines]
    /\ ret' = [clubs |-> parse_club_txt(lines, "England")]
    /\ UNCHANGED << tree, content, disk, db, pc, driver, force, runs, state, ri, fi, sha1, recs,
                    season_id, counts, bound, events, phases, failed, faulted, fdb, start, prev,
                    edited >>

NextClubText == \E lines \in ClubTexts : ParseClubTxt(lines)

SpecClubText == InitClubText /\ [][NextClubText]_vars

IsContinuation(line) == StartsWith(strip(line), "|")
IsHeader(line) ==
    /\ strip(line) # "" /\ ~IsContinuation(line)
    /\ ~StartsWith(strip(line), "=") /\ ~StartsWith(strip(line), "#")
HeadersUpTo(lines, k) == { h \in 1..k : IsHeader(lines[h]) }
\* the names a continuation line gives
ContinuationNames(line) ==
    Rows(SelectSeq(strip_all(split_on(strip(split_on(Tail(strip(line)), "#")[1]), "|"), 1),
                   NonEmpty))

\* C36: parse_club_txt returns one record per header line, in order; no
\* record is named by a '|' line; the names of a '|' line are among the
\* alternative names of the record of the nearest header line before it.
ClubTextScan ==
    arg.op = "club_txt" =>
        /\ Len(ret.clubs) = Cardinality(HeadersUpTo(arg.lines, Len(arg.lines)))
        /\ \A n \in DOMAIN ret.clubs : ~StartsWith(ret.clubs[n].name, "|")
        /\ \A k \in DOMAIN arg.lines :
              (IsContinuation(arg.lines[k]) /\ HeadersUpTo(arg.lines, k) # {}) =>
                  LET n == Cardinality(HeadersUpTo(arg.lines, k))
                  IN /\ n <= Len(ret.clubs)
                     /\ ContinuationNames(arg.lines[k])
                            \subseteq Rows(split_on(ret.clubs[n].alternative_names, ","))

\* ---------------------------------------------------------------------
\* Fixture text files of up to MaxLines lines over two date headers and
\* three match lines, parsed by parsers.fixture_parser.parse_fixture_txt
\* on the day Today
\* ---------------------------------------------------------------------
ScoredLines == { "15.00  Arsenal  2-1  Chelsea" }
UnscoredLines == { "Arsenal  ?-?  Chelsea", "Arsenal v Chelsea" }
\* a day before Today and a day after it
DateHeaders == { "[2023-08-12]", "[2027-01-02]" }

ScoreTexts ==
    UNION { [1..n -> ScoredLines \cup UnscoredLines \cup DateHeaders] : n \in 0..MaxLines }

InitScore ==
    /\ DriverIdle
    /\ arg = [op |-> "score", lines |-> <<>>]
    /\ ret = [fixtures |-> <<>>]

ParseFixtureTxt(lines) ==
    /\ arg.op = "score" /\ pc = "idle"
    /\ arg' = [op |-> "score", lines |-> lines]
    /\ ret' = [fixtures |-> parse_fixture_txt(lines, EmptyMapper, "2023")]
    /\ UNCHANGED << tree, content, disk, db, pc, driver, force, runs, state, ri, fi, sha1, recs,
                    season_id, counts, bound, events, phases, failed, faulted, fdb, start, prev,
                    edited >>

NextScore == \E lines \in ScoreTexts : ParseFixtureTxt(lines)

SpecScore == InitScore /\ [][NextScore]_vars

MatchLinesUpTo(lines, k) == { j \in 1..k : lines[j] \in ScoredLines \cup UnscoredLines }

\* C37: parse_fixture_txt returns one record per match line, in order; the
\* record of a line with a numeric score is completed and carries the
\* score; the record of a line with '?-?' or without a score is not
\* completed and carries no score.
ScoreGovernsCompletion ==
    arg.op = "score" =>
        /\ Len(ret.fixtures) = Cardinality(MatchLinesUpTo(arg.lines, Len(arg.lines)))
        /\ \A k \in MatchLinesUpTo(arg.lines, Len(arg.lines)) :
              LET n == Cardinality(MatchLinesUpTo(arg.lines, k))
                  Played(rec) ==
                      rec.is_completed /\ rec.home_score # NoScore /\ rec.away_score # NoScore
                  Unplayed(rec) ==
                      ~rec.is_completed /\ rec.home_score = NoScore /\ rec.away_score = NoScore
              IN /\ n <= Len(ret.fixtures)
                 /\ IF arg.lines[k] \in ScoredLines THEN Played(ret.fixtures[n])
                    ELSE Unplayed(ret.fixtures[n])

\* ---------------------------------------------------------------------
\* enhanced_ingestion.py in parallel mode: main submits one sync_repo per
\* repository to the thread pool and hands each the same IngestionStats
\* object.  stats.files_processed += 1 is a read of the attribute, an
\* addition and a write of the attribute; another thread can run between
\* the read and the write.  The counters of added and updated entities are
\* written after the upsert call only, which raises NameError, so no
\* thread reaches them.
\* ---------------------------------------------------------------------
\* files of each repository that the sha1 check does not skip
MaxStatFiles == 2

StatRepos == { "eng-england", "es-espana", "de-deutschland" }

IngestionStats ==
    [clubs_added |-> 0, clubs_updated |-> 0, fixtures_added |-> 0, fixtures_updated |-> 0,
     players_added |-> 0, players_updated |-> 0, files_processed |-> 0]

\* ret.thr[repo]: the files the thread has finished, where it is in the
\* file at hand, and the value it has read
InitStats ==
    /\ DriverIdle
    /\ arg = [op |-> "stats", parallel |-> TRUE]
    /\ ret = [stats |-> IngestionStats,
              thr |-> [repo \in StatRepos |-> [files |-> 0, pc |-> "read", read |-> 0]],
              summary |-> << >>]

StatsStep(r) ==
    /\ arg.op = "stats" /\ pc = "idle"
    /\ ret' = r
    /\ UNCHANGED << arg, tree, content, disk, db, pc, driver, force, runs, state, ri, fi, sha1,
                    recs, season_id, counts, bound, events, phases, failed, faulted, fdb, start,
                    prev, edited >>

\* stats.files_processed += 1, first half: the attribute is read
ReadFilesProcessed(repo) ==
    /\ ret.summary = << >>
    /\ ret.thr[repo].pc = "read" /\ ret.thr[repo].files < MaxStatFiles
    /\ StatsStep([ret EXCEPT !.thr[repo].pc = "write",
                             !.thr[repo].read = ret.stats.files_processed])

\* second half: the sum is written; the rest of the iteration (session,
\* parser, NameError at the upsert call, except clause) leaves stats alone
WriteFilesProcessed(repo) ==
    /\ ret.summary = << >>
    /\ ret.thr[repo].pc = "write"
    /\ StatsStep([ret EXCEPT !.stats.files_processed = ret.thr[repo].read + 1,
                             !.thr[repo].pc = "read",
                             !.thr[repo].files = @ + 1])

\* main after the pool has shut down: stats.log_summary()
LogSummary ==
    /\ ret.summary = << >>
    /\ \A repo \in StatRepos : ret.thr[repo].files = MaxStatFiles
    /\ StatsStep([ret EXCEPT !.summary = << ret.stats >>])

NextStats ==
    \/ \E repo \in StatRepos : ReadFilesProcessed(repo)
    \/ \E repo \in StatRepos : WriteFilesProcessed(repo)
    \/ LogSummary

SpecStats == InitStats /\ [][NextStats]_vars

\* C38: in parallel mode the run summary's files_processed is the number of
\* files the partitions processed, and each added/updated counter is the
\* sum of what the files contributed (nothing, the upserts raising).
SummaryIsSum ==
    (arg.op = "stats" /\ ret.summary # << >>) =>
        /\ ret.summary[1].files_processed = Cardinality(StatRepos) * MaxStatFiles
        /\ \A c \in DOMAIN IngestionStats \ {"files_processed"} : ret.summary[1][c] = 0

MapperKeys == { e.key : e \in Rows(ret.normalized_map) }

\* C39: in the map that build_normalized_team_map returns, the value of
\* every key is mapped to itself, and the parsers' lookup applied twice to
\* a key or to a name that is no key gives what it gives applied once.
CanonicalFixedPoint ==
    MapperBuilt =>
        /\ \A k \in MapperKeys : Mapping(Mapping(k)) = Mapping(k)
        /\ \A n \in MapperKeys \cup {"Everton"} :
              mapper_get(as_mapper(ret.normalized_map),
                         mapper_get(as_mapper(ret.normalized_map), n))
                  = mapper_get(as_mapper(ret.normalized_map), n)

Cleared == arg.op = "repair" /\ arg.pass = "clear_incorrect_fixtures"
OtherTables == {"clubs", "teams", "competitions", "seasons", "results", "players", "audits"}
\* the competition's country is the nationality that the keywords give
\* both teams
FiledAtHome(d, fx) ==
    LET home == TeamName(d, fx.home_team_id)
        away == TeamName(d, fx.away_team_id)
        country == competition_of(d, fx).country
    IN \/ country = "Germany" /\ is_german(home) /\ is_german(away)
       \/ country = "Spain" /\ is_spanish(home) /\ is_spanish(away)

\* C40: clear_incorrect_fixtures leaves every table but fixtures as it
\* was, leaves every Fixture row it keeps as it was and adds none, and
\* keeps a fixture that is alone with its (home name, away name, date) and
\* filed under a competition of the country of both its teams.
RepairFrame ==
    Cleared =>
        /\ \A t \in OtherTables : db[t] = ret.before[t]
        /\ Rows(db.fixtures) \subseteq Rows(ret.before.fixtures)
        /\ \A fx \in Rows(ret.before.fixtures) :
              (/\ group_of(ret.before, Rows(ret.before.fixtures), fx) = {fx}
               /\ FiledAtHome(ret.before, fx)) => fx \in Rows(db.fixtures)

====
